---------------------------- MODULE Spec2Model ----------------------------
(***************************************************************************)
(* Model of the bookcode wave-code engine: the code generator              *)
(* (lib/services/codeGenerator.ts), the theme functions (lib/types/theme), *)
(* the themed renderer (lib/services/imageGenerator.ts) and the admin      *)
(* routes that issue codes against the page store.                         *)
(*                                                                         *)
(* Strings are sequences of characters; a character is a one-token string. *)
(* Real numbers are exact rationals kept as integer numerators over a      *)
(* named denominator.                                                      *)
(***************************************************************************)
EXTENDS Integers, Sequences, FiniteSets, TLC

VARIABLES
    code,       \* codec: the argument handed to the code functions
    ret,        \* codec: record of the last call [fn, arg, val]
    code2,      \* codec pairs: second argument
    ret2,       \* codec pairs: result of the call on the second argument
    count,      \* generateUniqueCodes: the argument
    codes,      \* generateUniqueCodes: the Set, in insertion order
    pcGen,      \* generateUniqueCodes: position ("idle", "loop", "done")
    genResult,  \* generateUniqueCodes: the array returned
    DEFAULT_THEME,  \* lib/types/theme: the module-level default theme object
    PRESET_THEMES,  \* lib/types/theme: the module-level preset objects
    themeConfig,    \* themes: the partial theme (or null) handed to the calls
    renderCode,     \* themes: the code handed to the renderer
    themeRet,       \* themes: record of the last call
    memo,           \* themes: first result seen for each call and arguments
    pages,          \* prisma.page: the stored page records
    pageCount,      \* prisma.book: the pageCount of each book
    nextId,         \* prisma.page: the id the next created page gets
    gen,            \* the generate-codes requests: position and locals of each
    regen,           \* the regenerate requests: position and locals of each
    batch,           \* generateWaveCodes, generateThemedWaveCodes: the call in progress
    rateLimitCache, \* lib/utils/rateLimit: the LRU cache, least recently used entry first
    now,            \* Date.now()
    rateOptions,    \* the options the callers hand to rateLimit
    rateLog,        \* the rateLimit calls made by the two identifiers and what they returned
    rateBudget,      \* clock steps and bursts of other identifiers still to come
    validate,        \* POST /api/validate: the request handled last and its response
    admin,          \* the books, the image bucket and the answer to the last admin request
    adminBudget,    \* admin requests still to come
    adminSession,    \* whether the last admin request came with a session
    flight,          \* a batch path: the renders started and the renders completed
    bucket,          \* the image files in the storage bucket, as <<bookId, code>>
    lookup,          \* POST /api/validate step by step: its position, what it read, its response
    editor          \* the theme editor page: its theme, its debounce timer, its preview requests, its previews

codecVars == <<code, ret, code2, ret2>>
genVars == <<count, codes, pcGen, genResult>>
themeVars == <<DEFAULT_THEME, PRESET_THEMES, themeConfig, renderCode, themeRet, memo>>
storeVars == <<pages, pageCount, nextId, gen, regen>>
batchVars == <<batch>>
rateVars == <<rateLimitCache, now, rateOptions, rateLog, rateBudget>>
validateVars == <<validate>>
adminVars == <<admin, adminBudget, adminSession>>
flightVars == <<flight>>
bucketVars == <<bucket>>
lookupVars == <<lookup>>
editorVars == <<editor>>
vars == <<codecVars, genVars, themeVars, storeVars, batchVars, rateVars, validateVars, adminVars, flightVars, bucketVars, lookupVars, editorVars>>

\* what the actions of one component leave alone
notCodec == <<genVars, themeVars, storeVars, batchVars, rateVars, validateVars, adminVars, flightVars, bucketVars, lookupVars, editorVars>>
notGen == <<codecVars, themeVars, storeVars, batchVars, rateVars, validateVars, adminVars, flightVars, bucketVars, lookupVars, editorVars>>
notTheme == <<codecVars, genVars, storeVars, batchVars, rateVars, validateVars, adminVars, flightVars, bucketVars, lookupVars, editorVars>>
notStore == <<codecVars, genVars, themeVars, batchVars, rateVars, validateVars, adminVars, flightVars, bucketVars, lookupVars, editorVars>>
notBatch == <<codecVars, genVars, themeVars, storeVars, rateVars, validateVars, adminVars, flightVars, bucketVars, lookupVars, editorVars>>
notRate == <<codecVars, genVars, themeVars, storeVars, batchVars, validateVars, adminVars, flightVars, bucketVars, lookupVars, editorVars>>
notValidate == <<codecVars, genVars, themeVars, storeVars, batchVars, rateVars, adminVars, flightVars, bucketVars, lookupVars, editorVars>>
notAdmin == <<codecVars, genVars, themeVars, storeVars, batchVars, rateVars, validateVars, flightVars, bucketVars, lookupVars, editorVars>>
notAdminNorStore == <<codecVars, genVars, themeVars, batchVars, rateVars, validateVars, flightVars, bucketVars, lookupVars, editorVars>>
notRateNorValidate == <<codecVars, genVars, themeVars, storeVars, batchVars, adminVars, flightVars, bucketVars, lookupVars, editorVars>>
notFlight == <<codecVars, genVars, themeVars, storeVars, batchVars, rateVars, validateVars, adminVars, bucketVars, lookupVars, editorVars>>
notBucket == <<codecVars, genVars, themeVars, storeVars, batchVars, rateVars, validateVars, adminVars, flightVars, lookupVars, editorVars>>
notStoreNorBucket == <<codecVars, genVars, themeVars, batchVars, rateVars, validateVars, adminVars, flightVars, lookupVars, editorVars>>
notLookupNorRate == <<codecVars, genVars, themeVars, storeVars, batchVars, validateVars, adminVars, flightVars, bucketVars, editorVars>>
notLookup == <<codecVars, genVars, themeVars, storeVars, batchVars, rateVars, validateVars, adminVars, flightVars, bucketVars, editorVars>>
notEditor == <<codecVars, genVars, themeVars, storeVars, batchVars, rateVars, validateVars, adminVars, flightVars, bucketVars, lookupVars>>

-----------------------------------------------------------------------------
(* Bounds *)

\* how many positions of an input string may hold a character other than
\* the filler character
MaxVaried == 1

\* how many fields of a partial theme may be set besides the fields that
\* validateTheme reads
MaxFields == 1

\* how many distinct codes the random source can produce
PoolSize == 4

\* pages of one generate-codes request
MaxPages == 2

\* codes the random source draws from while requests run against the store
StorePool == 2

\* requests that arrive, of either route
MaxRequests == 2

\* rateLimit calls of the two identifiers that are followed
MaxRateCalls == 4

\* steps of the clock between rateLimit calls
MaxTicks == 2

\* bursts of calls by other identifiers
MaxBursts == 1

\* requests to the book, theme and preview handlers of the admin API
MaxAdminRequests == 2
MaxEdits == 2

-----------------------------------------------------------------------------
(* Characters and JavaScript string primitives *)

\* JavaScript values handed to the functions: null, undefined, or a string
Null == [t |-> "null"]
Undefined == [t |-> "undefined"]
Str(s) == [t |-> "string", s |-> s]
None == "none"

UpperLetters == <<"A","B","C","D","E","F","G","H","I","J","K","L","M",
                  "N","O","P","Q","R","S","T","U","V","W","X","Y","Z">>
LowerLetters == <<"a","b","c","d","e","f","g","h","i","j","k","l","m",
                  "n","o","p","q","r","s","t","u","v","w","x","y","z">>
Digits == <<"0","1","2","3","4","5","6","7","8","9">>

\* U+00DF LATIN SMALL LETTER SHARP S: one UTF-16 unit whose upper case is "SS"
SharpS == "U+00DF"
\* U+0131 LATIN SMALL LETTER DOTLESS I: upper case is "I"
DotlessI == "U+0131"

Range(s) == {s[i] : i \in 1..Len(s)}

IndexOf(s, ch) == CHOOSE i \in 1..Len(s) : s[i] = ch

\* const ALPHABET = 'ABCDEFGHIJKLMNOPQRSTUVWXYZ0123456789'
ALPHABET == UpperLetters \o Digits

CODE_LENGTH == 6

\* String.prototype.charCodeAt(0) of a one-character string
charCodeAt(ch) ==
    IF ch \in Range(UpperLetters) THEN 64 + IndexOf(UpperLetters, ch)
    ELSE IF ch \in Range(LowerLetters) THEN 96 + IndexOf(LowerLetters, ch)
    ELSE IF ch \in Range(Digits) THEN 47 + IndexOf(Digits, ch)
    ELSE IF ch = "!" THEN 33
    ELSE IF ch = " " THEN 32
    ELSE IF ch = SharpS THEN 223
    ELSE 305

\* upper case of one character: a string, because the mapping may lengthen
toUpperCaseChar(ch) ==
    IF ch \in Range(LowerLetters) THEN <<UpperLetters[IndexOf(LowerLetters, ch)]>>
    ELSE IF ch = SharpS THEN <<"S", "S">>
    ELSE IF ch = DotlessI THEN <<"I">>
    ELSE <<ch>>

\* String.prototype.toUpperCase
RECURSIVE toUpperCase(_)
toUpperCase(s) ==
    IF s = <<>> THEN <<>>
    ELSE toUpperCaseChar(Head(s)) \o toUpperCase(Tail(s))

IsString(v) == v.t = "string"

\* the characters inputs are written with
Chars == Range(ALPHABET) \cup {"a", "z", "!", " ", SharpS, DotlessI}

Filler(n) == [i \in 1..n |-> "A"]

\* s with position edits[k][1] set to character edits[k][2], for k = 1..n
RECURSIVE Edit(_, _, _)
Edit(s, edits, n) ==
    IF n = 0 THEN s
    ELSE [Edit(s, edits, n - 1) EXCEPT ![edits[n][1]] = edits[n][2]]

\* the strings of length n that differ from the filler in at most MaxVaried
\* positions, as edits of the filler
Edits(n) == [1..MaxVaried -> (1..n) \X Chars]

InputLengths == (CODE_LENGTH - 1)..(CODE_LENGTH + 1)

-----------------------------------------------------------------------------
(* lib/services/codeGenerator.ts *)

\* /^[A-Z0-9]{6}$/.test(s)
validPattern(s) == Len(s) = 6 /\ \A i \in 1..Len(s) : s[i] \in Range(ALPHABET)

\* isValidCodeFormat testing the pattern on the string as given
isValidCodeFormatCaseSensitive(c) ==
    IF ~IsString(c) \/ c.s = <<>> \/ Len(c.s) # CODE_LENGTH THEN FALSE
    ELSE validPattern(c.s)

\* !code holds of null, undefined and the empty string
isValidCodeFormat(c) ==
    IF ~IsString(c) \/ c.s = <<>> \/ Len(c.s) # CODE_LENGTH THEN FALSE
    ELSE validPattern(toUpperCase(c.s))

\* charValue with the digit offset forgotten
charValueNoOffset(ch) ==
    IF charCodeAt(ch) >= charCodeAt("A") /\ charCodeAt(ch) <= charCodeAt("Z")
        THEN charCodeAt(ch) - 65
    ELSE IF charCodeAt(ch) >= charCodeAt("0") /\ charCodeAt(ch) <= charCodeAt("9")
        THEN charCodeAt(ch) - 48
    ELSE 0

\* the callback of codeToNumericValues' map
charValue(ch) ==
    IF charCodeAt(ch) >= charCodeAt("A") /\ charCodeAt(ch) <= charCodeAt("Z")
        THEN charCodeAt(ch) - 65
    ELSE IF charCodeAt(ch) >= charCodeAt("0") /\ charCodeAt(ch) <= charCodeAt("9")
        THEN charCodeAt(ch) - 48 + 26
    ELSE 0

codeToNumericValues(c) ==
    LET up == toUpperCase(c.s) IN [i \in 1..Len(up) |-> charValue(up[i])]

maxValue == 35

\* bar heights are rationals with this denominator: the coefficients of the
\* transforms are hundredths and normalizedVal is val / maxValue
Den == maxValue * 100

Min(a, b) == IF a <= b THEN a ELSE b
Max(a, b) == IF a >= b THEN a ELSE b

\* affine with the slope a tenth steeper
affineSteeper(val, mul, add) == val * (mul + 10) + add * maxValue

\* normalizedVal * mul + add, the argument of Math.min, as a numerator over
\* Den; mul and add in hundredths
affine(val, mul, add) == val * mul + add * maxValue

\* clampedBar without Math.min
unclampedBar(val, mul, add) == val * mul + add * maxValue

\* Math.min(1, normalizedVal * mul + add), mul and add in hundredths
clampedBar(val, mul, add) == Min(Den, affine(val, mul, add))

\* affineBars with the first transform in the place of the third and fourth
affineBarsAlike(val) ==
    << affine(val, 80, 20), affine(val, 110, 10),
       affine(val, 80, 20), affine(val, 80, 20) >>

\* the four values handed to Math.min for charValues[idx] = val
affineBars(val) ==
    << affine(val, 80, 20), affine(val, 110, 10),
       affine(val, 95, 15), affine(val, 85, 20) >>

\* waveBars with seed added to the bars, scaled to thousandths
waveBarsSeeded(val, idx) ==
    LET seed == (idx + 1) * 7
    IN  << Min(Den, val * 80 + 20 * maxValue + seed),
           Min(Den, val * 110 + 10 * maxValue + seed),
           Min(Den, val * 95 + 15 * maxValue + seed),
           Min(Den, val * 85 + 20 * maxValue + seed) >>

\* waveBars with the second push statement pasted four times
waveBarsPasted(val, idx) ==
    << Min(Den, val * 110 + 10 * maxValue),
       Min(Den, val * 110 + 10 * maxValue),
       Min(Den, val * 110 + 10 * maxValue),
       Min(Den, val * 110 + 10 * maxValue) >>

\* the four bars pushed for charValues[idx] = val (idx is 0-based; seed is
\* computed by the code and never used)
waveBars(val, idx) ==
    LET seed == (idx + 1) * 7
    IN  << clampedBar(val, 80, 20),
           clampedBar(val, 110, 10),
           clampedBar(val, 95, 15),
           clampedBar(val, 85, 20) >>

RECURSIVE pushBars(_, _)
pushBars(charValues, n) ==
    IF n = 0 THEN <<>>
    ELSE pushBars(charValues, n - 1) \o waveBars(charValues[n], n - 1)

codeToWavePattern(c) ==
    LET charValues == codeToNumericValues(c)
    IN  pushBars(charValues, Len(charValues))

-----------------------------------------------------------------------------
(* lib/types/theme.ts *)

Hex(a, b, c, d, e, f) == <<"#", a, b, c, d, e, f>>
Grey(h) == Hex(h, h, h, h, h, h)

\* export const DEFAULT_THEME
DefaultThemeValue ==
    [ colorScheme |-> [type |-> "solid", primary |-> Grey("0"), background |-> Grey("F")],
      barStyle    |-> [shape |-> "rectangle", thickness |-> 5, spacing |-> 3],
      effects     |-> [shadow |-> FALSE, opacity |-> 100],
      dimensions  |-> [width |-> 15, height |-> 5, dpi |-> 300] ]

\* export const PRESET_THEMES
PresetThemesValue ==
    [ classic |->
        [ colorScheme |-> [type |-> "solid", primary |-> Grey("0"), background |-> Grey("F")],
          barStyle |-> [shape |-> "rectangle", thickness |-> 5, spacing |-> 3] ],
      elegantGold |->
        [ colorScheme |-> [type |-> "gradient", primary |-> Hex("D","4","A","F","3","7"),
                           secondary |-> Hex("F","F","D","7","0","0"),
                           background |-> Hex("F","F","F","E","F","0"),
                           gradientAngle |-> 90],
          barStyle |-> [shape |-> "rounded", thickness |-> 4, spacing |-> 2, roundness |-> 30] ],
      oceanBlue |->
        [ colorScheme |-> [type |-> "gradient", primary |-> Hex("0","0","7","7","B","E"),
                           secondary |-> Hex("0","0","C","9","F","F"),
                           background |-> Hex("F","0","F","8","F","F"),
                           gradientAngle |-> 45],
          barStyle |-> [shape |-> "rounded", thickness |-> 5, spacing |-> 3, roundness |-> 50] ],
      forestGreen |->
        [ colorScheme |-> [type |-> "dual-tone", primary |-> Hex("2","D","5","0","1","6"),
                           secondary |-> Hex("7","C","B","3","4","2"),
                           background |-> Hex("F","1","F","8","E","9")],
          barStyle |-> [shape |-> "rectangle", thickness |-> 6, spacing |-> 2] ],
      sunsetGradient |->
        [ colorScheme |-> [type |-> "gradient", primary |-> Hex("F","F","6","B","6","B"),
                           secondary |-> Hex("F","F","D","9","3","D"),
                           background |-> Hex("F","F","F","9","E","6"),
                           gradientAngle |-> 135],
          barStyle |-> [shape |-> "rounded", thickness |-> 5, spacing |-> 3, roundness |-> 40] ],
      midnightPurple |->
        [ colorScheme |-> [type |-> "gradient", primary |-> Hex("2","D","1","B","6","9"),
                           secondary |-> Hex("6","B","4","C","9","A"),
                           background |-> Hex("F","3","F","0","F","F"),
                           gradientAngle |-> 90],
          barStyle |-> [shape |-> "circular", thickness |-> 4, spacing |-> 4],
          effects |-> [shadow |-> TRUE, shadowColor |-> Grey("0"), shadowBlur |-> 2,
                       opacity |-> 90] ] ]

Sections == {"colorScheme", "barStyle", "effects", "dimensions"}

\* a key of an object that is present
Has(obj, key) == key \in DOMAIN obj

\* { ...a, ...b }: the keys of both, b's value where b has the key
Spread(a, b) ==
    [k \in DOMAIN a \cup DOMAIN b |-> IF k \in DOMAIN b THEN b[k] ELSE a[k]]

\* the spread written the other way round: { ...partial[section], ...a }
SpreadSectionSwapped(a, partial, section) ==
    IF Has(partial, section) THEN Spread(partial[section], a) ELSE a

\* { ...a, ...partial[section] }, where partial[section] may be undefined
SpreadSection(a, partial, section) ==
    IF Has(partial, section) THEN Spread(a, partial[section]) ELSE a

\* a merge that assigns the partial's fields into DEFAULT_THEME and returns it
mergeWithDefaultInPlace(def, partial) ==
    IF partial = Null THEN [ret |-> def, DEFAULT_THEME |-> def, arg |-> partial]
    ELSE LET merged ==
                [ colorScheme |-> SpreadSection(def.colorScheme, partial, "colorScheme"),
                  barStyle    |-> SpreadSection(def.barStyle, partial, "barStyle"),
                  effects     |-> SpreadSection(def.effects, partial, "effects"),
                  dimensions  |-> SpreadSection(def.dimensions, partial, "dimensions") ]
         IN  [ret |-> merged, DEFAULT_THEME |-> merged, arg |-> partial]

\* mergeWithDefault(partial) run with the module's DEFAULT_THEME being def:
\* the value returned, and the two objects it was handed as they are after
\* the call (it builds new objects and assigns to neither)
mergeWithDefaultCall(def, partial) ==
    IF partial = Null THEN [ret |-> def, DEFAULT_THEME |-> def, arg |-> partial]
    ELSE [ ret |->
             [ colorScheme |-> SpreadSection(def.colorScheme, partial, "colorScheme"),
               barStyle    |-> SpreadSection(def.barStyle, partial, "barStyle"),
               effects     |-> SpreadSection(def.effects, partial, "effects"),
               dimensions  |-> SpreadSection(def.dimensions, partial, "dimensions") ],
           DEFAULT_THEME |-> def,
           arg |-> partial ]

mergeWithDefault(def, partial) == mergeWithDefaultCall(def, partial).ret

HexDigits == <<"0","1","2","3","4","5","6","7","8","9","A","B","C","D","E","F">>
LowerHexDigits == <<"0","1","2","3","4","5","6","7","8","9","a","b","c","d","e","f">>

IsHexDigit(ch) == ch \in Range(HexDigits) \cup Range(LowerHexDigits)

\* parseInt of one hexadecimal digit
hexDigitValue(ch) ==
    IF ch \in Range(HexDigits) THEN IndexOf(HexDigits, ch) - 1
    ELSE IndexOf(LowerHexDigits, ch) - 1

\* /^#?([a-f\d]{2})([a-f\d]{2})([a-f\d]{2})$/i and parseInt(.., 16); Null
\* when the pattern does not match
hexToRgb(hex) ==
    LET digits == IF hex # <<>> /\ Head(hex) = "#" THEN Tail(hex) ELSE hex
    IN  IF Len(digits) = 6 /\ \A i \in 1..6 : IsHexDigit(digits[i])
        THEN [ r |-> 16 * hexDigitValue(digits[1]) + hexDigitValue(digits[2]),
               g |-> 16 * hexDigitValue(digits[3]) + hexDigitValue(digits[4]),
               b |-> 16 * hexDigitValue(digits[5]) + hexDigitValue(digits[6]) ]
        ELSE Null

\* v /= 255; v <= 0.03928 ? v / 12.92 : Math.pow((v + 0.055) / 1.055, 2.4),
\* in thousandths, for the channel values the model's colours use
linearChannel(v) ==
    CASE v = 0 -> 0
      [] v = 22 -> 8
      [] v = 27 -> 11
      [] v = 45 -> 26
      [] v = 51 -> 33
      [] v = 55 -> 38
      [] v = 80 -> 80
      [] v = 102 -> 133
      [] v = 105 -> 141
      [] v = 107 -> 147
      [] v = 119 -> 184
      [] v = 136 -> 246
      [] v = 153 -> 319
      [] v = 175 -> 429
      [] v = 190 -> 515
      [] v = 204 -> 604
      [] v = 212 -> 658
      [] v = 230 -> 791
      [] v = 233 -> 815
      [] v = 240 -> 871
      [] v = 241 -> 880
      [] v = 243 -> 896
      [] v = 248 -> 939
      [] v = 249 -> 947
      [] v = 254 -> 991
      [] v = 255 -> 1000

\* getLuminance, as a numerator over LuminanceDen
LuminanceDen == 1000 * 10000

getLuminance(hex) ==
    LET rgb == hexToRgb(hex)
    IN  IF rgb = Null THEN 0
        ELSE 2126 * linearChannel(rgb.r) + 7152 * linearChannel(rgb.g)
             + 722 * linearChannel(rgb.b)

\* (lighter + 0.05) / (darker + 0.05), as <<numerator, denominator>>, both
\* over LuminanceDen
getContrastRatio(color1, color2) ==
    LET l1 == getLuminance(color1)
        l2 == getLuminance(color2)
        lighter == Max(l1, l2)
        darker == Min(l1, l2)
    IN  << lighter + LuminanceDen \div 20, darker + LuminanceDen \div 20 >>

\* ratio < tenths / 10
RatioBelow(ratio, tenths) == 10 * ratio[1] < tenths * ratio[2]

Warning(type, severity) == [type |-> type, severity |-> severity]

\* warnings.push(w) when cond holds
PushIf(warnings, cond, w) == IF cond THEN Append(warnings, w) ELSE warnings

\* validateTheme returning at the first warning found
validateThemeFirstOnly(theme) ==
    LET contrast == getContrastRatio(theme.colorScheme.primary, theme.colorScheme.background)
    IN  IF RatioBelow(contrast, 45)
            THEN <<Warning("contrast", IF RatioBelow(contrast, 30) THEN "error" ELSE "warning")>>
        ELSE IF theme.barStyle.thickness < 2 THEN <<Warning("thickness", "warning")>>
        ELSE IF theme.effects.opacity < 70 THEN <<Warning("opacity", "warning")>>
        ELSE IF theme.dimensions.width < 5 THEN <<Warning("size", "warning")>>
        ELSE IF theme.dimensions.dpi < 300 THEN <<Warning("dpi", "error")>>
        ELSE <<>>

\* the warnings in the order pushed (the message texts are left out)
validateTheme(theme) ==
    LET contrast == getContrastRatio(theme.colorScheme.primary, theme.colorScheme.background)
        w1 == PushIf(<<>>, RatioBelow(contrast, 45),
                     Warning("contrast", IF RatioBelow(contrast, 30) THEN "error" ELSE "warning"))
        w2 == PushIf(w1, theme.barStyle.thickness < 2, Warning("thickness", "warning"))
        w3 == PushIf(w2, theme.effects.opacity < 70, Warning("opacity", "warning"))
        w4 == PushIf(w3, theme.dimensions.width < 5, Warning("size", "warning"))
        w5 == PushIf(w4, theme.dimensions.dpi < 300, Warning("dpi", "error"))
    IN  w5

-----------------------------------------------------------------------------
(* lib/services/imageGenerator.ts: the themed renderer.  The SVG handed to  *)
(* sharp is kept as a scene: a record of its attributes and shape elements. *)

\* an optional attribute or property
Absent == [present |-> FALSE]
Present(v) == [present |-> TRUE, v |-> v]

\* Math.round(num / den) for den > 0: halves round up
Round(num, den) == (2 * num + den) \div (2 * den)

\* the conversion cutting the fraction off
mmToPixelsTruncated(mm, dpi) == (mm * dpi * 10) \div 254

\* Math.round((mm / 25.4) * dpi)
mmToPixels(mm, dpi) == Round(mm * dpi * 10, 254)

\* Math.cos and Math.sin of angle degrees, in ten-thousandths, for the angles
\* the model's themes use
cosDeg(angle) ==
    CASE angle \in {0, 360} -> 10000
      [] angle = 45 -> 7071
      [] angle \in {90, 270} -> 0
      [] angle = 135 -> -7071
      [] angle = 180 -> -10000

sinDeg(angle) ==
    CASE angle \in {0, 180, 360} -> 0
      [] angle \in {45, 135} -> 7071
      [] angle = 90 -> 10000
      [] angle = 270 -> -10000

\* createGradientDef: the endpoints are percentages in ten-thousandths
createGradientDef(id, primary, secondary, angle) ==
    [ id |-> id,
      x1 |-> 500000 - 50 * cosDeg(angle),
      y1 |-> 500000 - 50 * sinDeg(angle),
      x2 |-> 500000 + 50 * cosDeg(angle),
      y2 |-> 500000 + 50 * sinDeg(angle),
      stop0 |-> primary,
      stop100 |-> secondary ]

\* createBarPath: the shape elements of one bar, in document order.
\* rx is in 200ths of a pixel, cx and the triangle's apex in halves, cy a
\* numerator over cyDen
createBarPath(x, y, width, height, shape, roundness) ==
    CASE shape = "rounded" ->
            << [tag |-> "rect", x |-> x, y |-> y, width |-> width, height |-> height,
                rx200 |-> Min(100 * width, roundness * width)] >>
      [] shape = "circular" ->
            LET numCircles == Max(1, height \div (width + 1))
            IN  [i \in 1..numCircles |->
                    [tag |-> "circle", cx2 |-> 2 * x + width, r2 |-> width,
                     cyNum |-> 2 * numCircles * y + (2 * (i - 1) + 1) * height,
                     cyDen |-> 2 * numCircles]]
      [] shape = "triangle" ->
            << [tag |-> "polygon", midX2 |-> 2 * x + width, top |-> y,
                right |-> x + width, left |-> x, bottom |-> y + height] >>
      [] OTHER ->
            << [tag |-> "rect", x |-> x, y |-> y, width |-> width, height |-> height,
                rx200 |-> 0] >>

\* path.replace('/>', ` fill="${barFill}" ${filterRef}/>`): a string pattern
\* replaces its first occurrence only, so the first element of the path gets
\* the attributes; the '/circle>' and '</polygon>' patterns occur in no path
injectFill(path, barFill, filterRef) ==
    [i \in 1..Len(path) |->
        IF i = 1 THEN [shape |-> path[i], fill |-> Present(barFill), filter |-> filterRef]
        ELSE [shape |-> path[i], fill |-> Absent, filter |-> Absent]]

\* x || dflt for an optional number: undefined and 0 are falsy
OrNumber(obj, key, dflt) == IF Has(obj, key) /\ obj[key] # 0 THEN obj[key] ELSE dflt

\* x || dflt for an optional string: undefined and '' are falsy
OrString(obj, key, dflt) == IF Has(obj, key) /\ obj[key] # <<>> THEN obj[key] ELSE dflt

\* colorScheme.secondary is truthy
HasSecondary(colorScheme) == Has(colorScheme, "secondary") /\ colorScheme.secondary # <<>>

GradientRef == <<"url(#barGradient)">>

\* Math.max(2, Math.round(4 * (thickness / 5) * (dpi / 300))) and
\* Math.max(1, Math.round(2 * (spacing / 3) * (dpi / 300)))
baseBarWidth(barStyle, dimensions) ==
    Max(2, Round(4 * barStyle.thickness * dimensions.dpi, 5 * 300))
baseBarGap(barStyle, dimensions) ==
    Max(1, Round(2 * barStyle.spacing * dimensions.dpi, 3 * 300))

\* the SVG generateThemedWaveCode builds from the merged theme
themedScene(theme, c) ==
    LET colorScheme == theme.colorScheme
        barStyle == theme.barStyle
        effects == theme.effects
        dimensions == theme.dimensions
        width == mmToPixels(dimensions.width, dimensions.dpi)
        height == mmToPixels(dimensions.height, dimensions.dpi)
        wavePattern == codeToWavePattern(c)
        totalBarWidth == baseBarWidth(barStyle, dimensions) + baseBarGap(barStyle, dimensions)
        numBars == Min(Len(wavePattern), width \div totalBarWidth)
        totalBarsWidth == numBars * totalBarWidth - baseBarGap(barStyle, dimensions)
        startX == (width - totalBarsWidth) \div 2
        gradient == colorScheme.type = "gradient" /\ HasSecondary(colorScheme)
        fillRef == IF gradient THEN GradientRef ELSE colorScheme.primary
        filterRef == IF effects.shadow THEN Present("url(#shadow)") ELSE Absent
        bar(i) ==
            LET x == startX + i * totalBarWidth
                barHeight == Max(4, (wavePattern[i + 1] * (height - 8)) \div Den)
                y == (height - barHeight) \div 2
                barFill == IF colorScheme.type = "dual-tone" /\ HasSecondary(colorScheme)
                           THEN IF i % 2 = 0 THEN colorScheme.primary ELSE colorScheme.secondary
                           ELSE fillRef
            IN  injectFill(createBarPath(x, y, baseBarWidth(barStyle, dimensions), barHeight, barStyle.shape,
                                         IF Has(barStyle, "roundness") THEN barStyle.roundness ELSE 0),
                           barFill, filterRef)
    IN  [ width |-> width,
          height |-> height,
          gradientDef |->
              IF gradient
              THEN Present(createGradientDef("barGradient", colorScheme.primary,
                                             colorScheme.secondary,
                                             OrNumber(colorScheme, "gradientAngle", 90)))
              ELSE Absent,
          shadowDef |->
              IF effects.shadow
              THEN Present([dx |-> 1, dy |-> 1,
                            stdDeviation |-> OrNumber(effects, "shadowBlur", 2),
                            floodColor |-> OrString(effects, "shadowColor", Grey("0")),
                            floodOpacity50 |-> TRUE])
              ELSE Absent,
          background |-> colorScheme.background,
          groupOpacity |-> IF effects.opacity < 100 THEN Present(effects.opacity) ELSE Absent,
          density |-> dimensions.dpi,
          bars |-> [k \in 1..Max(0, numBars) |-> bar(k - 1)] ]

\* generateThemedWaveCode(code, themeConfig) run with the module's
\* DEFAULT_THEME being def: the scene rendered (or the TypeError of
\* code.toUpperCase()), and the two theme objects as they are after the call
generateThemedWaveCodeCall(def, c, partial) ==
    LET merged == mergeWithDefaultCall(def, partial)
    IN  [ ret |-> IF IsString(c) THEN [threw |-> FALSE, scene |-> themedScene(merged.ret, c)]
                  ELSE [threw |-> TRUE],
          DEFAULT_THEME |-> merged.DEFAULT_THEME,
          arg |-> merged.arg ]

-----------------------------------------------------------------------------
(* Calls of the code functions on one argument *)

NoCall == [fn |-> None]

\* a call that returned val, and a call that threw
Returned(fn, arg, val) == [fn |-> fn, arg |-> arg, threw |-> FALSE, val |-> val]
Threw(fn, arg) == [fn |-> fn, arg |-> arg, threw |-> TRUE]

\* the books of the store; a request may also name a book that is not there
Books == {"b1", "b2"}
GenRequests == 1..MaxRequests
RegenRequests == 1..MaxRequests

\* a request that has not arrived
NoGenRequest ==
    [ pc |-> "idle", bookId |-> None, n |-> 0, bookPageCount |-> 0, pageNumber |-> 0,
      existingCodes |-> {}, code |-> <<>>, attempts |-> 0, results |-> <<>>, status |-> 0 ]
NoRegenRequest ==
    [ pc |-> "idle", pageId |-> 0, bookId |-> None, oldCode |-> <<>>, newCode |-> <<>>,
      attempts |-> 0, error |-> None, status |-> 0 ]

IdleStore ==
    /\ pages = {}
    /\ pageCount = [b \in Books |-> 0]
    /\ nextId = 1
    /\ gen = [p \in GenRequests |-> NoGenRequest]
    /\ regen = [p \in RegenRequests |-> NoRegenRequest]

\* the books as the requests find them: both books of the store, without a
\* theme, and the images of the one stored page in the bucket
NoAdmin ==
    [ books |-> [b \in Books |-> Present([title |-> <<"T">>, themeConfig |-> Null])],
      images |-> {"b1"},
      imageUrl |-> {},
      response |-> NoCall ]

IdleAdmin == admin = NoAdmin /\ adminBudget = 0 /\ adminSession = FALSE

IdleValidate == validate = NoCall

IdleRate ==
    /\ rateLimitCache = <<>>
    /\ now = 0
    /\ rateOptions = <<>>
    /\ rateLog = <<>>
    /\ rateBudget = [ticks |-> 0, bursts |-> 0]

\* the theme editor page is not open
NoEditor == [open |-> FALSE]

IdleEditor == editor = NoEditor

\* no lookup has arrived
NoLookup == [pc |-> "idle"]

IdleLookup == lookup = NoLookup

\* an empty bucket
IdleBucket == bucket = {}

\* no batch path entered
NoFlight == [pc |-> "idle", path |-> None, n |-> 0, i |-> 0, started |-> 0, completed |-> 0]

IdleFlight == flight = NoFlight

\* no batch call made
NoBatch ==
    [ pc |-> "idle", fn |-> None, codes |-> <<>>, options |-> Null, rejects |-> {},
      i |-> 0, results |-> <<>>, ret |-> NoCall ]

IdleBatch == batch = NoBatch

IdleGen ==
    /\ count = 0
    /\ codes = <<>>
    /\ pcGen = "idle"
    /\ genResult = <<>>

IdleTheme ==
    /\ DEFAULT_THEME = DefaultThemeValue
    /\ PRESET_THEMES = PresetThemesValue
    /\ themeConfig = Null
    /\ renderCode = Null
    /\ themeRet = NoCall
    /\ memo = <<>>

IdleCodec ==
    /\ code = Null
    /\ ret = NoCall
    /\ code2 = Null
    /\ ret2 = NoCall

InitCodec ==
    /\ IdleEditor
    /\ IdleLookup
    /\ IdleBucket
    /\ IdleFlight
    /\ IdleAdmin
    /\ IdleValidate
    /\ IdleRate
    /\ IdleBatch
    /\ IdleStore
    /\ IdleGen
    /\ IdleTheme
    /\ \/ code \in {Null, Undefined, Str(<<>>)}
       \/ \E n \in InputLengths : \E e \in Edits(n) :
              code = Str(Edit(Filler(n), e, MaxVaried))
    /\ ret = NoCall
    /\ code2 = Null
    /\ ret2 = NoCall

CallIsValidCodeFormat ==
    /\ ret = NoCall
    /\ ret' = Returned("isValidCodeFormat", code, isValidCodeFormat(code))
    /\ UNCHANGED <<code, code2, ret2, notCodec>>

\* code.toUpperCase() throws on null and undefined
CallCodeToNumericValues ==
    /\ ret = NoCall
    /\ ret' = IF IsString(code)
                THEN Returned("codeToNumericValues", code, codeToNumericValues(code))
                ELSE Threw("codeToNumericValues", code)
    /\ UNCHANGED <<code, code2, ret2, notCodec>>

CallCodeToWavePattern ==
    /\ ret = NoCall
    /\ ret' = IF IsString(code)
                THEN Returned("codeToWavePattern", code, codeToWavePattern(code))
                ELSE Threw("codeToWavePattern", code)
    /\ UNCHANGED <<code, code2, ret2, notCodec>>

NextCodec ==
    \/ CallIsValidCodeFormat
    \/ CallCodeToNumericValues
    \/ CallCodeToWavePattern

SpecCodec == InitCodec /\ [][NextCodec]_vars

-----------------------------------------------------------------------------
(* Calls of codeToWavePattern on two arguments, one after the other *)

PairChars == {"A", "a", "0", "7", "8", "9"}

PairEdits == [1..MaxVaried -> (1..CODE_LENGTH) \X PairChars]

InitPairs ==
    /\ IdleEditor
    /\ IdleLookup
    /\ IdleBucket
    /\ IdleFlight
    /\ IdleAdmin
    /\ IdleValidate
    /\ IdleRate
    /\ IdleBatch
    /\ IdleStore
    /\ IdleGen
    /\ IdleTheme
    /\ \E e1 \in PairEdits, e2 \in PairEdits :
          /\ code = Str(Edit(Filler(CODE_LENGTH), e1, MaxVaried))
          /\ code2 = Str(Edit(Filler(CODE_LENGTH), e2, MaxVaried))
    /\ ret = NoCall
    /\ ret2 = NoCall

PairFirstCall ==
    /\ ret = NoCall
    /\ ret' = Returned("codeToWavePattern", code, codeToWavePattern(code))
    /\ UNCHANGED <<code, code2, ret2, notCodec>>

PairSecondCall ==
    /\ ret # NoCall
    /\ ret2 = NoCall
    /\ ret2' = Returned("codeToWavePattern", code2, codeToWavePattern(code2))
    /\ UNCHANGED <<code, code2, ret, notCodec>>

NextPairs == PairFirstCall \/ PairSecondCall

SpecPairs == InitPairs /\ [][NextPairs]_vars

-----------------------------------------------------------------------------
(* generateUniqueCodes(count) *)

\* the codes generateCode() can return: customAlphabet(ALPHABET, CODE_LENGTH)
\* draws CODE_LENGTH characters of ALPHABET; the pool holds PoolSize of them
CodePool == {Edit(Filler(CODE_LENGTH), <<<<CODE_LENGTH, ALPHABET[k]>>>>, 1) : k \in 1..PoolSize}

\* codes.add(c) on an array instead of a Set
arrayPush(set, c) == Append(set, c)

\* Set.prototype.add: a Set keeps insertion order and ignores a member
setAdd(set, c) == IF c \in Range(set) THEN set ELSE Append(set, c)

\* codes.size < count
genLoopCondition == Len(codes) < count

InitGen ==
    /\ IdleEditor
    /\ IdleLookup
    /\ IdleBucket
    /\ IdleFlight
    /\ IdleAdmin
    /\ IdleValidate
    /\ IdleRate
    /\ IdleBatch
    /\ IdleStore
    /\ IdleCodec
    /\ IdleTheme
    /\ count \in 0..(PoolSize + 1)
    /\ codes = <<>>
    /\ pcGen = "loop"
    /\ genResult = <<>>

\* one iteration: codes.add(generateCode()), generateCode() returning c
GenDraw(c) ==
    /\ pcGen = "loop"
    /\ genLoopCondition
    /\ codes' = setAdd(codes, c)
    /\ UNCHANGED <<count, pcGen, genResult, notGen>>

\* return Array.from(codes)
GenReturn ==
    /\ pcGen = "loop"
    /\ ~genLoopCondition
    /\ genResult' = codes
    /\ pcGen' = "done"
    /\ UNCHANGED <<count, codes, notGen>>

NextGen ==
    \/ \E c \in CodePool : GenDraw(c)
    \/ GenReturn

\* the function runs to its end, and the random source is fair: while the
\* loop runs, every code of the pool is produced again and again
FairGen ==
    /\ WF_vars(GenReturn)
    /\ \A c \in CodePool : WF_vars(GenDraw(c))

SpecGen == InitGen /\ [][NextGen]_vars /\ FairGen

-----------------------------------------------------------------------------
(* Properties of the code functions *)

\* a valid code: 6 characters from A-Z and 0-9
ValidCode(v) ==
    /\ IsString(v)
    /\ Len(v.s) = 6
    /\ \A i \in 1..Len(v.s) : v.s[i] \in Range(ALPHABET)

\* the alphabet index of a character of the alphabet: 'A' is 0, '9' is 35
Ordinal(ch) == IndexOf(ALPHABET, ch) - 1

\* the upper-case letter of a lower-case letter; other characters unchanged
UpperOf(ch) ==
    IF ch \in Range(LowerLetters) THEN UpperLetters[IndexOf(LowerLetters, ch)] ELSE ch

Uppercased(v) == Str([i \in 1..Len(v.s) |-> UpperOf(v.s[i])])

\* a valid code written with letters of either case
ValidAnyCase(v) == IsString(v) /\ ValidCode(Uppercased(v))

\* min(1, (mul/100) * (ord/35) + add/100) as a numerator over Den
ExpectedBar(ord, mul, add) ==
    IF mul * ord + add * 35 > 3500 THEN 3500 ELSE mul * ord + add * 35

\* C1: for every valid code c, codeToWavePattern(c) has exactly 24 elements
\* and every element lies in [0,1].
C1_PatternLengthAndRange ==
    (ret.fn = "codeToWavePattern" /\ ValidCode(ret.arg)) =>
        /\ ~ret.threw
        /\ Len(ret.val) = 24
        /\ \A k \in 1..Len(ret.val) : 0 <= ret.val[k] /\ ret.val[k] <= Den

\* a valid code whose pattern holds a bar of height 1 and a bar below 1
C1_Witness ==
    /\ ret.fn = "codeToWavePattern"
    /\ ValidCode(ret.arg)
    /\ \E k \in 1..Len(ret.val) : ret.val[k] = Den
    /\ \E k \in 1..Len(ret.val) : ret.val[k] < Den

C4_PatternInjective ==
    (/\ ret # NoCall /\ ret2 # NoCall
     /\ ValidAnyCase(ret.arg) /\ ValidAnyCase(ret2.arg)
     /\ Uppercased(ret.arg) # Uppercased(ret2.arg))
        => ret.val # ret2.val

\* two codes that differ only in one position, '8' against '9', where three
\* of the four bars are clamped to 1 for both characters
C4_Witness ==
    /\ ret # NoCall /\ ret2 # NoCall
    /\ ValidCode(ret.arg) /\ ValidCode(ret2.arg)
    /\ \E i \in 1..6 :
          /\ ret.arg.s[i] = "8" /\ ret2.arg.s[i] = "9"
          /\ \A j \in (1..6) \ {i} : ret.arg.s[j] = ret2.arg.s[j]
          /\ \A b \in 2..4 : ret.val[4 * (i - 1) + b] = ret2.val[4 * (i - 1) + b]
    /\ ret.val # ret2.val

C6_AlphabetIndex ==
    (ret.fn = "codeToNumericValues" /\ ValidAnyCase(ret.arg)) =>
        /\ ~ret.threw
        /\ Len(ret.val) = Len(ret.arg.s)
        /\ \A i \in 1..Len(ret.val) :
              /\ ret.val[i] \in 0..35
              /\ UpperOf(ret.arg.s[i]) \in Range(UpperLetters) =>
                    ret.val[i] = IndexOf(UpperLetters, UpperOf(ret.arg.s[i])) - 1
              /\ ret.arg.s[i] \in Range(Digits) =>
                    ret.val[i] = 26 + IndexOf(Digits, ret.arg.s[i]) - 1
        /\ Str([i \in 1..Len(ret.val) |-> ALPHABET[ret.val[i] + 1]]) = Uppercased(ret.arg)

\* a code holding a lower-case letter and a digit
C6_Witness ==
    /\ ret.fn = "codeToNumericValues"
    /\ ValidAnyCase(ret.arg)
    /\ \E i \in 1..6 : ret.arg.s[i] = "z" /\ ret.val[i] = 25
    /\ \E i \in 1..6 : ret.arg.s[i] = "A" /\ ret.val[i] = 0

-----------------------------------------------------------------------------
(* Theme calls of the theme route: mergeWithDefault, then validateTheme *)

\* partial with its section's field set to value
SetField(partial, section, field, value) ==
    Spread(partial,
           section :> Spread(IF Has(partial, section) THEN partial[section] ELSE <<>>,
                             field :> value))

RECURSIVE SetFields(_, _, _)
SetFields(partial, edits, n) ==
    IF n = 0 THEN partial
    ELSE SetField(SetFields(partial, edits, n - 1), edits[n][1], edits[n][2], edits[n][3])

\* the fields validateTheme reads, each with a value that warns and the
\* smallest value that does not (for primary: an error and a warning)
CheckedFields ==
    << <<"colorScheme", "primary", Grey("C"), Grey("8")>>,
       <<"barStyle", "thickness", 1, 2>>,
       <<"effects", "opacity", 50, 70>>,
       <<"dimensions", "width", 3, 5>>,
       <<"dimensions", "dpi", 72, 300>> >>

\* choice[k] is 0 (field k left out), 1 or 2 (its first or second value)
RECURSIVE SetChecked(_, _, _)
SetChecked(partial, choice, n) ==
    IF n = 0 THEN partial
    ELSE LET rest == SetChecked(partial, choice, n - 1)
             fld == CheckedFields[n]
         IN  IF choice[n] = 0 THEN rest
             ELSE SetField(rest, fld[1], fld[2], fld[2 + choice[n]])

\* settings of the other fields
OtherFields ==
    { <<"colorScheme", "type", "gradient">>, <<"colorScheme", "type", "dual-tone">>,
      <<"colorScheme", "secondary", Grey("6")>>, <<"colorScheme", "background", Grey("0")>>,
      <<"colorScheme", "background", <<"#", "f", "f", "f", "f", "f", "f">> >>,
      <<"colorScheme", "gradientAngle", 45>>,
      <<"barStyle", "shape", "circular">>, <<"barStyle", "spacing", 1>>,
      <<"barStyle", "roundness", 50>>,
      <<"effects", "shadow", TRUE>>, <<"effects", "shadowBlur", 3>>,
      <<"effects", "shadowColor", Grey("3")>>,
      <<"dimensions", "height", 10>> }

InitTheme ==
    /\ IdleEditor
    /\ IdleLookup
    /\ IdleBucket
    /\ IdleFlight
    /\ IdleAdmin
    /\ IdleValidate
    /\ IdleRate
    /\ IdleBatch
    /\ IdleStore
    /\ IdleCodec
    /\ IdleGen
    /\ DEFAULT_THEME = DefaultThemeValue
    /\ PRESET_THEMES = PresetThemesValue
    /\ \/ themeConfig = Null
       \/ \E choice \in [1..Len(CheckedFields) -> 0..2] :
          \E edits \in [1..MaxFields -> OtherFields] :
          \E n \in 0..MaxFields :
              themeConfig = SetFields(SetChecked(<<>>, choice, Len(CheckedFields)), edits, n)
    /\ renderCode = Null
    /\ themeRet = NoCall
    /\ memo = <<>>

\* const theme = mergeWithDefault(book.themeConfig)
ThemeMerge ==
    /\ themeRet = NoCall
    /\ LET call == mergeWithDefaultCall(DEFAULT_THEME, themeConfig)
       IN  /\ themeRet' = [fn |-> "mergeWithDefault", arg |-> themeConfig, val |-> call.ret]
           /\ DEFAULT_THEME' = call.DEFAULT_THEME
           /\ themeConfig' = call.arg
    /\ UNCHANGED <<PRESET_THEMES, renderCode, memo, notTheme>>

\* const warnings = validateTheme(theme)
ThemeValidate ==
    /\ themeRet.fn = "mergeWithDefault"
    /\ themeRet' = [fn |-> "validateTheme", arg |-> themeRet.val,
                    val |-> validateTheme(themeRet.val)]
    /\ UNCHANGED <<DEFAULT_THEME, PRESET_THEMES, themeConfig, renderCode, memo, notTheme>>

NextTheme == ThemeMerge \/ ThemeValidate

SpecTheme == InitTheme /\ [][NextTheme]_vars

-----------------------------------------------------------------------------
(* Sequences of pattern, merge, validate and render calls on the module's   *)
(* theme objects: the calls the theme routes and the renderer make, in any  *)
(* order, each handed null or one of the preset objects                     *)

\* the codes rendered: those of the pattern tests
RenderCodes ==
    { Str(<<"A", "B", "C", "1", "2", "3">>), Str(<<"X", "Y", "Z", "7", "8", "9">>) }

\* the themes handed over: null, or the name of a preset
RenderThemes == {"null", "forestGreen", "midnightPurple"}

\* the object a theme name stands for
ThemeObject(name) == IF name = "null" THEN Null ELSE PRESET_THEMES[name]

\* the preset objects after a call that was handed the object named name and
\* left it as obj
PresetsAfter(name, obj) ==
    IF name = "null" THEN PRESET_THEMES ELSE [PRESET_THEMES EXCEPT ![name] = obj]

\* the first result of each call is remembered under the call's arguments
Remember(key, val) == IF Has(memo, key) THEN memo ELSE Spread(memo, key :> val)

InitRender ==
    /\ IdleEditor
    /\ IdleLookup
    /\ IdleBucket
    /\ IdleFlight
    /\ IdleAdmin
    /\ IdleValidate
    /\ IdleRate
    /\ IdleBatch
    /\ IdleStore
    /\ IdleCodec
    /\ IdleGen
    /\ IdleTheme

\* codeToWavePattern(c)
RenderPattern(c) ==
    /\ LET val == codeToWavePattern(c)
           key == <<"codeToWavePattern", c, "null">>
       IN  /\ themeRet' = [fn |-> "codeToWavePattern", key |-> key, val |-> val]
           /\ memo' = Remember(key, val)
    /\ renderCode' = c
    /\ UNCHANGED <<DEFAULT_THEME, PRESET_THEMES, themeConfig, notTheme>>

\* mergeWithDefault(theme)
RenderMerge(name) ==
    /\ LET call == mergeWithDefaultCall(DEFAULT_THEME, ThemeObject(name))
       IN  /\ themeRet' = [fn |-> "mergeWithDefault", key |-> <<"mergeWithDefault", Null, name>>,
                           val |-> call.ret]
           /\ DEFAULT_THEME' = call.DEFAULT_THEME
           /\ PRESET_THEMES' = PresetsAfter(name, call.arg)
           /\ themeConfig' = call.arg
    /\ UNCHANGED <<renderCode, memo, notTheme>>

\* validateTheme(mergeWithDefault(theme))
RenderValidate(name) ==
    /\ LET call == mergeWithDefaultCall(DEFAULT_THEME, ThemeObject(name))
       IN  /\ themeRet' = [fn |-> "validateTheme", key |-> <<"validateTheme", Null, name>>,
                           val |-> validateTheme(call.ret)]
           /\ DEFAULT_THEME' = call.DEFAULT_THEME
           /\ PRESET_THEMES' = PresetsAfter(name, call.arg)
           /\ themeConfig' = call.arg
    /\ UNCHANGED <<renderCode, memo, notTheme>>

\* generateThemedWaveCode(c, theme)
RenderThemed(c, name) ==
    /\ LET call == generateThemedWaveCodeCall(DEFAULT_THEME, c, ThemeObject(name))
           key == <<"generateThemedWaveCode", c, name>>
       IN  /\ themeRet' = [fn |-> "generateThemedWaveCode", key |-> key, val |-> call.ret]
           /\ memo' = Remember(key, call.ret)
           /\ DEFAULT_THEME' = call.DEFAULT_THEME
           /\ PRESET_THEMES' = PresetsAfter(name, call.arg)
           /\ themeConfig' = call.arg
    /\ renderCode' = c
    /\ UNCHANGED notTheme

NextRender ==
    \/ \E c \in RenderCodes : RenderPattern(c)
    \/ \E name \in RenderThemes : RenderMerge(name)
    \/ \E name \in RenderThemes : RenderValidate(name)
    \/ \E c \in RenderCodes, name \in RenderThemes : RenderThemed(c, name)

SpecRender == InitRender /\ [][NextRender]_vars

-----------------------------------------------------------------------------
(* The page store and the two routes that issue codes against it:           *)
(* POST books/[id]/generate-codes and POST pages/[id]/regenerate.  Every    *)
(* await of a handler ends a step, so requests interleave between the store *)
(* read that checks a candidate and the store write that stores it.         *)

\* the codes generateUniqueCode() draws while the requests run
StoreCodes ==
    {Edit(Filler(CODE_LENGTH), <<<<CODE_LENGTH, ALPHABET[k]>>>>, 1) : k \in 1..StorePool}

\* const maxAttempts = 10
maxAttempts == 10

\* the page that is stored when the requests arrive
StoredPages ==
    { [ id |-> 1, bookId |-> "b1", pageNumber |-> 1,
        code |-> Edit(Filler(CODE_LENGTH), <<<<CODE_LENGTH, ALPHABET[1]>>>>, 1) ] }

\* the errors a handler catches
ExhaustedError == "Failed to generate unique code"
UniqueConstraintError == "Unique constraint failed on the fields: (code)"
RecordNotFoundError == "Record to update not found"
UploadError == "upload failed"

\* the file name of the image of a code: books/${bookId}/${code}.png
imageFile(bookId, c) == <<bookId, c>>

\* uploadWaveCodeImage(bookId, code, buffer) with the bucket configured
uploadWaveCodeImage(files, bookId, c) == files \cup {imageFile(bookId, c)}

\* deleteFromGCS(filename): file.delete(), an error of which is ignored
deleteFromGCS(files, filename) == files \ {filename}

\* the images in the bucket when the requests arrive
StoredImages == {imageFile(pg.bookId, pg.code) : pg \in StoredPages}

\* a store without the unique index on Page.code
uniqueIndexDropped(store, c, selfId) == FALSE

\* Page.code is unique: a write that would give a second page the code c fails
violatesUniqueCode(store, c, selfId) ==
    \E pg \in store : pg.code = c /\ pg.id # selfId

\* prisma.page.findUnique({ where: { code } })
findUniqueByCode(store, c) == \E pg \in store : pg.code = c

\* prisma.page.findUnique({ where: { id } })
findUniqueById(store, id) == {pg \in store : pg.id = id}

\* prisma.page.deleteMany({ where: { bookId } })
deleteMany(store, bookId) == {pg \in store : pg.bookId # bookId}

\* results.push({ pageNumber, code, imageUrl, success, error })
Success(r) == Append(r.results, [pageNumber |-> r.pageNumber, code |-> r.code,
                                  success |-> TRUE, error |-> None])
Failure(r, error) == Append(r.results, [pageNumber |-> r.pageNumber, code |-> <<>>,
                                         success |-> FALSE, error |-> error])

\* the for loop moves to the next audio link, or ends
NextPage(r, results) ==
    IF r.pageNumber < r.n
    THEN [r EXCEPT !.results = results, !.pageNumber = @ + 1, !.attempts = 0,
                   !.code = <<>>, !.pc = "draw"]
    ELSE [r EXCEPT !.results = results, !.attempts = 0, !.code = <<>>, !.pc = "finish"]

\* after the do-while of generate-codes: give the page up, or take the code
GenAfterLoop(r) ==
    IF r.attempts >= maxAttempts
    THEN NextPage(r, Failure(r, ExhaustedError))
    ELSE [r EXCEPT !.existingCodes = @ \cup {r.code}, !.attempts = 0, !.pc = "upload"]

\* a response ends the request
GenRespond(r, status) ==
    [NoGenRequest EXCEPT !.pc = "done", !.status = status, !.results = r.results]
RegenRespond(r, status, error) ==
    [NoRegenRequest EXCEPT !.pc = "done", !.status = status, !.error = error,
                           !.pageId = r.pageId, !.newCode = r.newCode]

\* the requests that have arrived
Arrived ==
    Cardinality({p \in GenRequests : gen[p].pc # "idle"})
        + Cardinality({p \in RegenRequests : regen[p].pc # "idle"})

\* request p is the next of its route to arrive
NextArrival(requests, p) ==
    /\ Arrived < MaxRequests
    /\ requests[p].pc = "idle"
    /\ \A q \in 1..(p - 1) : requests[q].pc # "idle"

InitStore ==
    /\ IdleEditor
    /\ IdleLookup
    /\ IdleFlight
    /\ IdleAdmin
    /\ IdleValidate
    /\ IdleRate
    /\ IdleBatch
    /\ IdleCodec
    /\ IdleGen
    /\ IdleTheme
    /\ pages = StoredPages
    /\ pageCount = [b \in Books |-> IF b = "b1" THEN 1 ELSE 0]
    /\ nextId = 2
    /\ gen = [p \in GenRequests |-> NoGenRequest]
    /\ regen = [p \in RegenRequests |-> NoRegenRequest]
    /\ bucket = StoredImages

\* generate-codes up to its first write: session, book lookup, audio links
GenStart(p, session, bookId, n) ==
    /\ NextArrival(gen, p)
    /\ gen' = [gen EXCEPT ![p] =
          IF ~session THEN GenRespond(@, 401)
          ELSE IF bookId \notin Books THEN GenRespond(@, 404)
          ELSE IF n = 0 THEN GenRespond(@, 400)
          ELSE [@ EXCEPT !.pc = "deleteMany", !.bookId = bookId, !.n = n,
                         !.bookPageCount = pageCount[bookId]]]
    /\ UNCHANGED <<pages, pageCount, nextId, regen, notStore>>

\* await prisma.page.deleteMany({ where: { bookId } })
GenDeleteMany(p) ==
    /\ gen[p].pc = "deleteMany"
    /\ pages' = deleteMany(pages, gen[p].bookId)
    /\ gen' = [gen EXCEPT ![p] = [@ EXCEPT !.pc = "draw", !.pageNumber = 1]]
    /\ UNCHANGED <<pageCount, nextId, regen, notStore>>

\* code = generateUniqueCode(); attempts++; existingCodes.has(code)
GenCandidate(p, c) ==
    /\ gen[p].pc = "draw"
    /\ LET r == [gen[p] EXCEPT !.code = c, !.attempts = @ + 1]
       IN  gen' = [gen EXCEPT ![p] =
              IF c \in r.existingCodes
              THEN IF r.attempts < maxAttempts THEN r ELSE GenAfterLoop(r)
              ELSE [r EXCEPT !.pc = "findUnique"]]
    /\ UNCHANGED <<pages, pageCount, nextId, regen, notStore>>

\* await prisma.page.findUnique({ where: { code } }), then the loop condition
GenFindUnique(p) ==
    /\ gen[p].pc = "findUnique"
    /\ gen' = [gen EXCEPT ![p] =
          IF findUniqueByCode(pages, @.code) /\ @.attempts < maxAttempts
          THEN [@ EXCEPT !.pc = "draw"]
          ELSE GenAfterLoop(@)]
    /\ UNCHANGED <<pages, pageCount, nextId, regen, notStore>>

\* await generatePrintableWaveCode(code); await uploadWaveCodeImage(...)
GenUpload(p, uploaded) ==
    /\ gen[p].pc = "upload"
    /\ gen' = [gen EXCEPT ![p] =
          IF uploaded THEN [@ EXCEPT !.pc = "create"]
          ELSE NextPage(@, Failure(@, UploadError))]
    /\ bucket' = IF uploaded THEN uploadWaveCodeImage(bucket, gen[p].bookId, gen[p].code)
                  ELSE bucket
    /\ UNCHANGED <<pages, pageCount, nextId, regen, notStoreNorBucket>>

\* await prisma.page.create({ data: { bookId, pageNumber, code, ... } })
GenCreate(p) ==
    /\ gen[p].pc = "create"
    /\ LET r == gen[p]
       IN  IF violatesUniqueCode(pages, r.code, 0)
           THEN /\ gen' = [gen EXCEPT ![p] = NextPage(r, Failure(r, UniqueConstraintError))]
                /\ UNCHANGED <<pages, nextId>>
           ELSE /\ pages' = pages \cup {[ id |-> nextId, bookId |-> r.bookId,
                                          pageNumber |-> r.pageNumber, code |-> r.code ]}
                /\ nextId' = nextId + 1
                /\ gen' = [gen EXCEPT ![p] = NextPage(r, Success(r))]
    /\ UNCHANGED <<pageCount, regen, notStore>>

\* the page count of the book, then the response
GenFinish(p) ==
    /\ gen[p].pc = "finish"
    /\ LET r == gen[p]
           successfulPages == Cardinality({k \in 1..Len(r.results) : r.results[k].success})
       IN  /\ pageCount' = IF r.bookPageCount # successfulPages
                           THEN [pageCount EXCEPT ![r.bookId] = successfulPages]
                           ELSE pageCount
           /\ gen' = [gen EXCEPT ![p] = GenRespond(r, 200)]
    /\ UNCHANGED <<pages, nextId, regen, notStore>>

\* regenerate up to its loop: session, page lookup
RegenStart(p, session, pageId) ==
    /\ NextArrival(regen, p)
    /\ LET found == findUniqueById(pages, pageId)
       IN  regen' = [regen EXCEPT ![p] =
              IF ~session THEN RegenRespond(@, 401, None)
              ELSE IF found = {} THEN RegenRespond(@, 404, None)
              ELSE LET page == CHOOSE pg \in found : TRUE
                   IN  [@ EXCEPT !.pc = "draw", !.pageId = pageId, !.bookId = page.bookId,
                                 !.oldCode = page.code]]
    /\ UNCHANGED <<pages, pageCount, nextId, gen, notStore>>

\* newCode = generateUniqueCode(); attempts++
RegenCandidate(p, c) ==
    /\ regen[p].pc = "draw"
    /\ regen' = [regen EXCEPT ![p] =
          [@ EXCEPT !.newCode = c, !.attempts = @ + 1, !.pc = "findUnique"]]
    /\ UNCHANGED <<pages, pageCount, nextId, gen, notStore>>

\* await prisma.page.findUnique({ where: { code: newCode } }); break or loop;
\* then if (attempts >= maxAttempts)
RegenFindUnique(p) ==
    /\ regen[p].pc = "findUnique"
    /\ regen' = [regen EXCEPT ![p] =
          IF findUniqueByCode(pages, @.newCode) /\ @.attempts < maxAttempts
          THEN [@ EXCEPT !.pc = "draw"]
          ELSE IF @.attempts >= maxAttempts
               THEN RegenRespond(@, 500, ExhaustedError)
               ELSE [@ EXCEPT !.attempts = 0, !.pc = "upload"]]
    /\ UNCHANGED <<pages, pageCount, nextId, gen, notStore>>

\* await generatePrintableWaveCode(newCode); await deleteFromGCS(old);
\* await uploadWaveCodeImage(...)
RegenUpload(p, uploaded) ==
    /\ regen[p].pc = "upload"
    /\ regen' = [regen EXCEPT ![p] =
          IF uploaded THEN [@ EXCEPT !.pc = "update"]
          ELSE RegenRespond(@, 500, UploadError)]
    /\ LET r == regen[p]
           deleted == deleteFromGCS(bucket, imageFile(r.bookId, r.oldCode))
       IN  bucket' = IF uploaded THEN uploadWaveCodeImage(deleted, r.bookId, r.newCode)
                     ELSE deleted
    /\ UNCHANGED <<pages, pageCount, nextId, gen, notStoreNorBucket>>

\* await prisma.page.update({ where: { id }, data: { code: newCode, imageUrl } })
RegenUpdate(p) ==
    /\ regen[p].pc = "update"
    /\ LET r == regen[p]
           found == findUniqueById(pages, r.pageId)
       IN  IF found = {}
           THEN /\ regen' = [regen EXCEPT ![p] = RegenRespond(r, 500, RecordNotFoundError)]
                /\ UNCHANGED pages
           ELSE IF violatesUniqueCode(pages, r.newCode, r.pageId)
           THEN /\ regen' = [regen EXCEPT ![p] = RegenRespond(r, 500, UniqueConstraintError)]
                /\ UNCHANGED pages
           ELSE /\ pages' = {IF pg.id = r.pageId THEN [pg EXCEPT !.code = r.newCode] ELSE pg
                                : pg \in pages}
                /\ regen' = [regen EXCEPT ![p] = RegenRespond(r, 200, None)]
    /\ UNCHANGED <<pageCount, nextId, gen, notStore>>

NextStore ==
    \/ \E p \in GenRequests, session \in BOOLEAN, bookId \in Books \cup {"b0"},
          n \in 0..MaxPages : GenStart(p, session, bookId, n)
    \/ \E p \in GenRequests : GenDeleteMany(p)
    \/ \E p \in GenRequests, c \in StoreCodes : GenCandidate(p, c)
    \/ \E p \in GenRequests : GenFindUnique(p)
    \/ \E p \in GenRequests, uploaded \in BOOLEAN : GenUpload(p, uploaded)
    \/ \E p \in GenRequests : GenCreate(p)
    \/ \E p \in GenRequests : GenFinish(p)
    \/ \E p \in RegenRequests, session \in BOOLEAN, pageId \in 1..(MaxPages + 1) :
          RegenStart(p, session, pageId)
    \/ \E p \in RegenRequests, c \in StoreCodes : RegenCandidate(p, c)
    \/ \E p \in RegenRequests : RegenFindUnique(p)
    \/ \E p \in RegenRequests, uploaded \in BOOLEAN : RegenUpload(p, uploaded)
    \/ \E p \in RegenRequests : RegenUpdate(p)

SpecStore == InitStore /\ [][NextStore]_vars

-----------------------------------------------------------------------------
(* The batch renderers of the image generator: generateWaveCodes and        *)
(* generateThemedWaveCodes.  One step per iteration of the for loop, which  *)
(* awaits Promise.all over the renders of one batch.                        *)

\* const DEFAULT_OPTIONS: Required<WaveCodeOptions>
DEFAULT_OPTIONS ==
    [ width |-> 180, height |-> 60, barWidth |-> 4, barGap |-> 2,
      backgroundColor |-> Grey("F"), barColor |-> Grey("0"), dpi |-> 300 ]

\* the options of generatePreviewWaveCode
PreviewOptions == [width |-> 120, height |-> 40, barWidth |-> 3, barGap |-> 1, dpi |-> 72]

\* generateWaveCode(code, options): the svg handed to sharp
waveScene(c, options) ==
    LET opts == Spread(DEFAULT_OPTIONS, options)
        wavePattern == codeToWavePattern(c)
        totalBarWidth == opts.barWidth + opts.barGap
        numBars == Min(Len(wavePattern), opts.width \div totalBarWidth)
        totalBarsWidth == numBars * totalBarWidth - opts.barGap
        startX == (opts.width - totalBarsWidth) \div 2
        bar(i) ==
            LET barHeight == Max(4, (wavePattern[i + 1] * (opts.height - 8)) \div Den)
            IN  [ x |-> startX + i * totalBarWidth, y |-> (opts.height - barHeight) \div 2,
                  width |-> opts.barWidth, height |-> barHeight, rx |-> 1,
                  fill |-> opts.barColor ]
    IN  [ width |-> opts.width, height |-> opts.height,
          background |-> opts.backgroundColor, density |-> opts.dpi,
          bars |-> [k \in 1..Max(0, numBars) |-> bar(k - 1)] ]

\* const batchSize = 50
batchSize == 50

\* the image one item of a batch renders to
batchImage(fn, c, options) ==
    IF fn = "generateWaveCodes" THEN waveScene(c, options)
    ELSE themedScene(mergeWithDefault(DefaultThemeValue, options), c)

\* the render of item k rejects: codeToWavePattern throws on a code that is
\* not a string, or sharp rejects
itemRejects(b, k) == ~IsString(b.codes[k]) \/ k \in b.rejects

\* batchResults.forEach(({ code, buffer }) => results.set(code, buffer)) on a
\* Map kept as its entries in insertion order: set replaces the value of a
\* key the Map holds and appends a key it does not hold
setAll(b, map, from, to) ==
    LET image(c) == batchImage(b.fn, c, b.options)
        held(c) == \E e \in 1..Len(map) : map[e][1] = c
        inBatch(c) == \E k \in from..to : b.codes[k] = c
        first(k) == ~held(b.codes[k]) /\ \A j \in from..(k - 1) : b.codes[j] # b.codes[k]
        appended == SelectSeq([k \in 1..(to - from + 1) |-> from + k - 1], first)
    IN  [e \in 1..Len(map) |->
            IF inBatch(map[e][1]) THEN <<map[e][1], image(map[e][1])>> ELSE map[e]]
        \o [e \in 1..Len(appended) |->
               <<b.codes[appended[e]], image(b.codes[appended[e]])>>]

\* the batch functions
BatchFunctions == {"generateWaveCodes", "generateThemedWaveCodes"}

\* the items of a list of codes
BatchItems ==
    { Str(<<"A", "B", "C", "1", "2", "3">>), Str(<<"X", "Y", "Z", "7", "8", "9">>), Null }

\* the lengths of the lists: none, one batch, and a second batch of one
BatchLengths == {0, 1, 2, batchSize, batchSize + 1}

\* a list of n codes: first and last as given, the others the first test code
BatchCodes(n, first, last) ==
    [k \in 1..n |-> IF k = 1 THEN first
                    ELSE IF k = n THEN last
                    ELSE Str(<<"A", "B", "C", "1", "2", "3">>)]

\* the second argument: options of generateWaveCodes, theme of
\* generateThemedWaveCodes
BatchOptions(fn) ==
    IF fn = "generateWaveCodes" THEN {<<>>, PreviewOptions}
    ELSE {Null, PresetThemesValue.forestGreen}

InitBatch ==
    /\ IdleEditor
    /\ IdleLookup
    /\ IdleBucket
    /\ IdleFlight
    /\ IdleAdmin
    /\ IdleValidate
    /\ IdleRate
    /\ IdleCodec
    /\ IdleGen
    /\ IdleTheme
    /\ IdleStore
    /\ batch = NoBatch

\* const results = new Map()
BatchCall(fn, list, options, rejects) ==
    /\ batch.pc = "idle"
    /\ batch' = [batch EXCEPT !.pc = "loop", !.fn = fn, !.codes = list,
                              !.options = options, !.rejects = rejects]
    /\ UNCHANGED notBatch

\* one iteration: batch = codes.slice(i, i + batchSize); await Promise.all;
\* results.set for each; a rejected render rejects Promise.all and the call
BatchIteration ==
    /\ batch.pc = "loop"
    /\ batch.i < Len(batch.codes)
    /\ LET from == batch.i + 1
           to == Min(batch.i + batchSize, Len(batch.codes))
       IN  batch' =
              IF \E k \in from..to : itemRejects(batch, k)
              THEN [batch EXCEPT !.pc = "done", !.ret = [fn |-> batch.fn, threw |-> TRUE]]
              ELSE [batch EXCEPT !.i = @ + batchSize,
                                 !.results = setAll(batch, @, from, to)]
    /\ UNCHANGED notBatch

\* return results
BatchReturn ==
    /\ batch.pc = "loop"
    /\ batch.i >= Len(batch.codes)
    /\ batch' = [batch EXCEPT !.pc = "done",
                              !.ret = [fn |-> batch.fn, threw |-> FALSE, val |-> batch.results]]
    /\ UNCHANGED notBatch

NextBatch ==
    \/ \E fn \in BatchFunctions, n \in BatchLengths, first \in BatchItems, last \in BatchItems :
          \E options \in BatchOptions(fn), rejects \in SUBSET ({1, n} \cap (1..n)) :
              BatchCall(fn, BatchCodes(n, first, last), options, rejects)
    \/ BatchIteration
    \/ BatchReturn

SpecBatch == InitBatch /\ [][NextBatch]_vars

-----------------------------------------------------------------------------
(* lib/utils/rateLimit: rateLimit(identifier, options) over the module's    *)
(* LRU cache.  Two identifiers are followed call by call; the other         *)
(* identifiers arrive in bursts of one call each, and their cache entries   *)
(* are kept as a count.                                                     *)

\* const DEFAULT_OPTIONS: RateLimitOptions = { interval: 60000, limit: 100 }
DEFAULT_RATE_OPTIONS == [interval |-> 60000, limit |-> 100]

\* new LRUCache({ max: 5000, ttl: 60000 })
rateLimitCacheMax == 5000
rateLimitCacheTtl == 60000

\* the identifiers followed
Identifiers == {"a", "b"}

\* the options handed over: those of the validate route left to the default
\* limit or cut to a small limit, and a two-minute window
RateOptions ==
    { [limit |-> 1], [limit |-> 2], [limit |-> 1, interval |-> 120000] }

\* the steps of the clock, in milliseconds
Ticks == {1, 60000}

\* the sizes of a burst of other identifiers
Bursts == {rateLimitCacheMax - 1, rateLimitCacheMax}

\* an entry of an identifier that is followed, and a run of entries of others
IsEntryOf(item, id) == "id" \in DOMAIN item /\ item.id = id
ItemSize(item) == IF "others" \in DOMAIN item THEN item.others ELSE 1

RECURSIVE CacheSize(_)
CacheSize(cache) == IF cache = <<>> THEN 0 ELSE ItemSize(Head(cache)) + CacheSize(Tail(cache))

\* the cache without the entry of id
Without(cache, id) == SelectSeq(cache, LAMBDA item : ~IsEntryOf(item, id))

\* the cache drops least recently used entries while it holds more than max
RECURSIVE Evict(_)
Evict(cache) ==
    LET over == CacheSize(cache) - rateLimitCacheMax
    IN  IF over <= 0 THEN cache
        ELSE IF ItemSize(Head(cache)) <= over THEN Evict(Tail(cache))
        ELSE <<[others |-> Head(cache).others - over]>> \o Tail(cache)

\* an entry is stale once it is older than ttl
IsStale(item, t) == t - item.start > rateLimitCacheTtl

\* rateLimitCache.get(identifier): the value (undefined as the absent value)
\* and the cache after the call: a stale entry is deleted, a live one becomes
\* the most recently used
cacheGet(cache, id, t) ==
    LET found == SelectSeq(cache, LAMBDA item : IsEntryOf(item, id))
    IN  IF found = <<>> THEN [value |-> Absent, cache |-> cache]
        ELSE IF IsStale(found[1], t) THEN [value |-> Absent, cache |-> Without(cache, id)]
        ELSE [value |-> Present(found[1].value), cache |-> Append(Without(cache, id), found[1])]

\* rateLimitCache.set(identifier, timestamps)
cacheSet(cache, id, value, t) ==
    Evict(Append(Without(cache, id), [id |-> id, value |-> value, start |-> t]))

\* Math.ceil(num / den) for a positive den
CeilDiv(num, den) == -((-num) \div den)

\* rateLimit pushing the timestamp of a rejected call as well
rateLimitRecordingRejected(cache, id, options, t) ==
    LET opts == Spread(DEFAULT_RATE_OPTIONS, options)
        windowStart == t - opts.interval
        got == cacheGet(cache, id, t)
        timestamps == SelectSeq(IF got.value.present THEN got.value.v ELSE <<>>,
                                LAMBDA ts : ts > windowStart)
    IN  IF Len(timestamps) >= opts.limit
        THEN [ ret |-> [ success |-> FALSE, remaining |-> 0,
                         reset |-> CeilDiv(timestamps[1] + opts.interval - t, 1000) ],
               cache |-> cacheSet(got.cache, id, Append(timestamps, t), t) ]
        ELSE [ ret |-> [ success |-> TRUE,
                         remaining |-> opts.limit - (Len(timestamps) + 1),
                         reset |-> CeilDiv(opts.interval, 1000) ],
               cache |-> cacheSet(got.cache, id, Append(timestamps, t), t) ]

\* rateLimit(identifier, options) called at time t: what it returns, and the
\* cache after the call
rateLimit(cache, id, options, t) ==
    LET opts == Spread(DEFAULT_RATE_OPTIONS, options)
        windowStart == t - opts.interval
        got == cacheGet(cache, id, t)
        timestamps == SelectSeq(IF got.value.present THEN got.value.v ELSE <<>>,
                                LAMBDA ts : ts > windowStart)
    IN  IF Len(timestamps) >= opts.limit
        THEN [ ret |-> [ success |-> FALSE, remaining |-> 0,
                         reset |-> CeilDiv(timestamps[1] + opts.interval - t, 1000) ],
               cache |-> got.cache ]
        ELSE [ ret |-> [ success |-> TRUE,
                         remaining |-> opts.limit - (Len(timestamps) + 1),
                         reset |-> CeilDiv(opts.interval, 1000) ],
               cache |-> cacheSet(got.cache, id, Append(timestamps, t), t) ]

InitRate ==
    /\ IdleEditor
    /\ IdleLookup
    /\ IdleBucket
    /\ IdleFlight
    /\ IdleAdmin
    /\ IdleValidate
    /\ IdleCodec
    /\ IdleGen
    /\ IdleTheme
    /\ IdleStore
    /\ IdleBatch
    /\ rateLimitCache = <<>>
    /\ now = 0
    /\ rateOptions \in RateOptions
    /\ rateLog = <<>>
    /\ rateBudget = [ticks |-> MaxTicks, bursts |-> MaxBursts]

\* one of the two identifiers calls rateLimit
RateLimitCall(id) ==
    /\ Len(rateLog) < MaxRateCalls
    /\ LET call == rateLimit(rateLimitCache, id, rateOptions, now)
       IN  /\ rateLimitCache' = call.cache
           /\ rateLog' = Append(rateLog, [id |-> id, t |-> now, ret |-> call.ret])
    /\ UNCHANGED <<now, rateOptions, rateBudget, notRate>>

\* n other identifiers, none of them in the cache, call rateLimit once each:
\* each call is allowed and sets an entry
OthersCall(n) ==
    /\ rateBudget.bursts > 0
    /\ rateBudget' = [rateBudget EXCEPT !.bursts = @ - 1]
    /\ rateLimitCache' = Evict(Append(rateLimitCache, [others |-> n]))
    /\ UNCHANGED <<now, rateOptions, rateLog, notRate>>

\* the clock moves on
Tick(d) ==
    /\ rateBudget.ticks > 0
    /\ rateBudget' = [rateBudget EXCEPT !.ticks = @ - 1]
    /\ now' = now + d
    /\ UNCHANGED <<rateLimitCache, rateOptions, rateLog, notRate>>

NextRate ==
    \/ \E id \in Identifiers : RateLimitCall(id)
    \/ \E n \in Bursts : OthersCall(n)
    \/ \E d \in Ticks : Tick(d)

SpecRate == InitRate /\ [][NextRate]_vars

-----------------------------------------------------------------------------
(* app/api/validate: POST /api/validate, the public lookup of a code.       *)

\* validateCodeSchema = z.object({ code: z.string().regex(/^[A-Z0-9]{6}$/) })
validateCodeSchema(body) ==
    /\ Has(body, "code")
    /\ IsString(body.code)
    /\ validPattern(body.code.s)

\* getClientIP(request) of a request with neither x-forwarded-for nor x-real-ip
DefaultClientIP == "127.0.0.1"

\* rateLimit(clientIP, { limit: 100, interval: 60000 })
ValidateRateOptions == [limit |-> 100, interval |-> 60000]

\* the pages stored while the lookups arrive: two pages of one book
ValidatePages ==
    { [ id |-> k, bookId |-> "b1", pageNumber |-> k,
        code |-> Edit(Filler(CODE_LENGTH), <<<<CODE_LENGTH, ALPHABET[k]>>>>, 1) ] : k \in 1..2 }

\* the codes looked up: stored ones as stored, in lower case and in mixed
\* case, a code that is not stored, and strings that are no codes at all
ValidateCodes ==
    { Edit(Filler(CODE_LENGTH), <<<<CODE_LENGTH, ch>>>>, 1) : ch \in {"A", "B", "a", "b", "C", "!"} }
        \cup { [i \in 1..CODE_LENGTH |-> "a"], Filler(CODE_LENGTH - 1), <<>> }

\* the request bodies: objects with a code, with a code that is no string,
\* without a code, and a body that is not JSON
MalformedBody == [malformed |-> TRUE]
ValidateBodies ==
    { [code |-> Str(c)] : c \in ValidateCodes }
        \cup { [code |-> Null], [page |-> Str(<<"1">>)], MalformedBody }

\* prisma.page.findFirst({ where: { bookId, pageNumber } }) ?.code || null
CodeOfPage(store, bookId, pageNumber) ==
    LET found == {pg \in store : pg.bookId = bookId /\ pg.pageNumber = pageNumber}
    IN  IF found = {} THEN Null ELSE Str((CHOOSE pg \in found : TRUE).code)

\* prisma.page.findMany({ pageNumber: { gt, lte: + 2 } }, orderBy pageNumber)
Prefetch(store, page) ==
    LET at(n) == CodeOfPage(store, page.bookId, page.pageNumber + n)
    IN  SelectSeq(<<at(1), at(2)>>, LAMBDA c : c # Null)

\* headers: { ...corsHeaders, ...rateLimitHeaders(remaining, reset) }
WithRateLimitHeaders(response, result) ==
    Spread(response, [remaining |-> result.remaining, reset |-> result.reset])

\* what POST answers to a body that parsed, once the rate limit let it pass
ValidateAnswer(store, body) ==
    IF ~validateCodeSchema(body)
    THEN [status |-> 400, valid |-> FALSE, message |-> "Invalid code format"]
    ELSE LET found == {pg \in store : pg.code = toUpperCase(body.code.s)}
         IN  IF found = {}
             THEN [status |-> 404, valid |-> FALSE, message |-> "Code not found"]
             ELSE LET currentPage == CHOOSE pg \in found : TRUE
                  IN  [ status |-> 200, valid |-> TRUE,
                        book_id |-> currentPage.bookId,
                        page_number |-> currentPage.pageNumber,
                        next_code |-> CodeOfPage(store, currentPage.bookId, currentPage.pageNumber + 1),
                        prev_code |-> CodeOfPage(store, currentPage.bookId, currentPage.pageNumber - 1),
                        prefetch |-> Prefetch(store, currentPage) ]

InitValidate ==
    /\ IdleEditor
    /\ IdleLookup
    /\ IdleBucket
    /\ IdleFlight
    /\ IdleAdmin
    /\ IdleCodec
    /\ IdleGen
    /\ IdleTheme
    /\ IdleBatch
    /\ pages = ValidatePages
    /\ pageCount = [b \in Books |-> 0]
    /\ nextId = 3
    /\ gen = [p \in GenRequests |-> NoGenRequest]
    /\ regen = [p \in RegenRequests |-> NoRegenRequest]
    /\ rateLimitCache = <<>>
    /\ now = 0
    /\ rateOptions = ValidateRateOptions
    /\ rateLog = <<>>
    /\ rateBudget = [ticks |-> MaxTicks, bursts |-> 0]
    /\ validate = NoCall

\* POST /api/validate with the given body
ValidatePost(body) ==
    /\ LET rateLimitResult == rateLimit(rateLimitCache, DefaultClientIP, rateOptions, now)
       IN  /\ rateLimitCache' = rateLimitResult.cache
           /\ validate' =
                Returned("POST", body,
                    IF ~rateLimitResult.ret.success
                    THEN WithRateLimitHeaders(
                            [status |-> 429, valid |-> FALSE, message |-> "Rate limit exceeded"],
                            rateLimitResult.ret)
                    ELSE IF body = MalformedBody
                    THEN [status |-> 500, valid |-> FALSE, message |-> "Internal server error"]
                    ELSE WithRateLimitHeaders(ValidateAnswer(pages, body), rateLimitResult.ret))
    /\ UNCHANGED <<now, rateOptions, rateLog, rateBudget, notRateNorValidate>>

NextValidate ==
    \/ \E body \in ValidateBodies : ValidatePost(body)
    \/ Tick(ValidateRateOptions.interval)

SpecValidate == InitValidate /\ [][NextValidate]_vars

-----------------------------------------------------------------------------
(* The admin API: app/api/admin/books and the routes below books/[id].  A   *)
(* handler that reads or writes the store is one step.  generate-codes and  *)
(* pages/[id]/regenerate are the handlers of the page store above; here     *)
(* they are called without a session.                                       *)

\* const session = await getServerSession(authOptions); if (!session) return 401
Unauthorized == [status |-> 401, error |-> "Unauthorized"]

\* a handler that goes on without looking at the session
Unguarded(session, next) == next

\* the first statements of every handler
Guarded(session, next) ==
    IF ~session THEN [admin EXCEPT !.response = Unauthorized] ELSE next

Respond(a, response) == [a EXCEPT !.response = response]

\* prisma.book.findUnique({ where: { id } }): the book, or Null
findBook(a, id) ==
    IF id \in Books /\ a.books[id].present THEN a.books[id].v ELSE Null

\* the pages of a book, orderBy: { pageNumber: 'asc' }
RECURSIVE orderByPageNumber(_)
orderByPageNumber(set) ==
    IF set = {} THEN <<>>
    ELSE LET first == CHOOSE pg \in set :
                        \A other \in set : <<pg.pageNumber, pg.id>> = <<other.pageNumber, other.id>>
                            \/ pg.pageNumber < other.pageNumber
                            \/ (pg.pageNumber = other.pageNumber /\ pg.id < other.id)
         IN  <<first>> \o orderByPageNumber(set \ {first})

bookPages(store, id) == orderByPageNumber({pg \in store : pg.bookId = id})

\* array.slice(0, n)
Slice(seq, n) == SubSeq(seq, 1, Min(n, Len(seq)))

\* book.pages with take: 5, mapped to the codes
pageCodes(store, id) ==
    LET list == Slice(bookPages(store, id), 5)
    IN  [k \in 1..Len(list) |-> list[k].code]

\* createBookSchema, and updateBookSchema = createBookSchema.partial()
bookFieldValid(body, key) ==
    IF key = "pageCount" THEN body[key] >= 1 /\ body[key] <= 10000
    ELSE Len(body[key]) >= 1 /\ Len(body[key]) <= 255
createBookSchema(body) ==
    \A key \in {"title", "author", "pageCount"} : Has(body, key) /\ bookFieldValid(body, key)
updateBookSchema(body) ==
    \A key \in {"title", "author", "pageCount"} : Has(body, key) => bookFieldValid(body, key)

\* /^#[0-9A-Fa-f]{6}$/
IsHexColour(s) == Len(s) = 7 /\ s[1] = "#" /\ \A i \in 2..7 : IsHexDigit(s[i])

\* the fields of a section of themeConfigSchema, and the optional ones
SchemaFields ==
    [ colorScheme |-> {"type", "primary", "secondary", "background", "gradientAngle"},
      barStyle    |-> {"shape", "thickness", "spacing", "roundness"},
      effects     |-> {"shadow", "shadowColor", "shadowBlur", "opacity"},
      dimensions  |-> {"width", "height", "dpi"} ]
OptionalFields == {"secondary", "gradientAngle", "roundness", "shadowColor", "shadowBlur"}

\* z.number().min(lo).max(hi)
InRange(v, lo, hi) == v >= lo /\ v <= hi

\* one field of themeConfigSchema
schemaFieldValid(key, v) ==
    CASE key = "type" -> v \in {"solid", "gradient", "dual-tone"}
      [] key \in {"primary", "secondary", "background", "shadowColor"} -> IsHexColour(v)
      [] key = "gradientAngle" -> InRange(v, 0, 360)
      [] key = "shape" -> v \in {"rectangle", "rounded", "circular", "triangle"}
      [] key = "thickness" -> InRange(v, 1, 10)
      [] key = "spacing" -> InRange(v, 1, 5)
      [] key = "roundness" -> InRange(v, 0, 100)
      [] key = "shadow" -> v \in BOOLEAN
      [] key = "shadowBlur" -> InRange(v, 0, 10)
      [] key = "opacity" -> InRange(v, 0, 100)
      [] key = "width" -> InRange(v, 1, 100)
      [] key = "height" -> InRange(v, 1, 50)
      [] key = "dpi" -> InRange(v, 72, 1200)

\* themeConfigSchema.safeParse(config).success: an object whose sections,
\* where present, hold every required field and only valid values
themeConfigSchema(config) ==
    /\ config # Null
    /\ \A section \in DOMAIN config \cap Sections :
          \A key \in SchemaFields[section] :
              IF Has(config[section], key) THEN schemaFieldValid(key, config[section][key])
              ELSE key \in OptionalFields

\* validated.data: the keys the schema knows
schemaData(config) ==
    [ section \in DOMAIN config \cap Sections |->
        [ key \in DOMAIN config[section] \cap SchemaFields[section] |-> config[section][key] ] ]

\* the theme configurations in request bodies: none, one the schema accepts,
\* one with a colour that is no hex colour, one with a width out of range, one
\* with a key the schema does not know
ValidConfig == [dimensions |-> [width |-> 40, height |-> 12, dpi |-> 150]]
BadColourConfig ==
    [colorScheme |-> [type |-> "solid", primary |-> <<"r", "e", "d">>, background |-> Grey("F")]]
OutOfRangeConfig == [dimensions |-> [width |-> 1000, height |-> 12, dpi |-> 150]]
ExtraKeyConfig == [dimensions |-> [width |-> 40, height |-> 12, dpi |-> 150, unit |-> "mm"]]
ThemeConfigs == {Null, ValidConfig, BadColourConfig, OutOfRangeConfig, ExtraKeyConfig}

\* codes = ['ABC123', 'XYZ789', 'TEST01']
FallbackCodes ==
    << <<"A","B","C","1","2","3">>, <<"X","Y","Z","7","8","9">>, <<"T","E","S","T","0","1">> >>

\* the sample codes a preview request names: none, one, and six
SampleCodes == { <<>>, <<FallbackCodes[1]>>, [k \in 1..6 |-> FallbackCodes[2]] }

\* sampleCodes.map(code => generateThemedWaveCodeDataUrl(code, theme)) with
\* theme = mergeWithDefault(config)
previewSamples(list, config) ==
    [ k \in 1..Len(list) |->
        [ code |-> list[k], config |-> config, theme |-> mergeWithDefault(DEFAULT_THEME, config) ] ]

\* the codes of a preview: the ones named, else the book's, else the fallback
previewCodes(named, store, id) ==
    IF Slice(named, 5) # <<>> THEN Slice(named, 5)
    ELSE IF pageCodes(store, id) # <<>> THEN pageCodes(store, id)
    ELSE FallbackCodes

InitAdmin ==
    /\ IdleEditor
    /\ IdleLookup
    /\ IdleBucket
    /\ IdleFlight
    /\ IdleCodec
    /\ IdleGen
    /\ IdleTheme
    /\ IdleBatch
    /\ IdleRate
    /\ IdleValidate
    /\ pages = StoredPages
    /\ pageCount = [b \in Books |-> IF b = "b1" THEN 1 ELSE 0]
    /\ nextId = 2
    /\ gen = [p \in GenRequests |-> NoGenRequest]
    /\ regen = [p \in RegenRequests |-> NoRegenRequest]
    /\ admin = NoAdmin
    /\ adminBudget = MaxAdminRequests
    /\ adminSession = FALSE

\* one more admin request is handled
Arrives(session) ==
    /\ adminBudget > 0
    /\ adminBudget' = adminBudget - 1
    /\ adminSession' = session

\* GET /api/admin/books
BooksList(session) ==
    /\ Arrives(session)
    /\ admin' = Guarded(session,
          Respond(admin, [status |-> 200, books |-> {b \in Books : admin.books[b].present}]))
    /\ UNCHANGED notAdmin

\* POST /api/admin/books; prisma.book.create gives the book an id no book has
BooksCreate(session, body) ==
    /\ Arrives(session)
    /\ LET free == {b \in Books : ~admin.books[b].present}
           id == CHOOSE b \in free : TRUE
       IN  IF session /\ createBookSchema(body)
           THEN /\ free # {}
                /\ admin' = [admin EXCEPT
                      !.books[id] = Present([title |-> body.title, themeConfig |-> Null]),
                      !.response = [status |-> 201, id |-> id]]
                /\ pageCount' = [pageCount EXCEPT ![id] = body.pageCount]
           ELSE /\ admin' = Guarded(session,
                      Respond(admin, [status |-> 400, error |-> "Validation failed"]))
                /\ UNCHANGED pageCount
    /\ UNCHANGED <<pages, nextId, gen, regen, notAdminNorStore>>

\* GET /api/admin/books/[id]
BookGet(session, id) ==
    /\ Arrives(session)
    /\ admin' = Guarded(session,
          IF findBook(admin, id) = Null
          THEN Respond(admin, [status |-> 404, error |-> "Book not found"])
          ELSE Respond(admin, [status |-> 200, book |-> findBook(admin, id),
                               pages |-> bookPages(pages, id)]))
    /\ UNCHANGED notAdmin

\* PUT /api/admin/books/[id]; prisma.book.update throws when no book has the id
BookUpdate(session, id, body) ==
    /\ Arrives(session)
    /\ LET book == findBook(admin, id)
       IN  IF session /\ updateBookSchema(body) /\ book # Null
           THEN /\ admin' = [admin EXCEPT
                      !.books[id] = Present(IF Has(body, "title")
                                            THEN [book EXCEPT !.title = body.title] ELSE book),
                      !.response = [status |-> 200, id |-> id]]
                /\ pageCount' = IF Has(body, "pageCount")
                                THEN [pageCount EXCEPT ![id] = body.pageCount] ELSE pageCount
           ELSE /\ admin' = Guarded(session,
                      IF ~updateBookSchema(body)
                      THEN Respond(admin, [status |-> 400, error |-> "Validation failed"])
                      ELSE Respond(admin, [status |-> 500, error |-> "Failed to update book"]))
                /\ UNCHANGED pageCount
    /\ UNCHANGED <<pages, nextId, gen, regen, notAdminNorStore>>

\* DELETE /api/admin/books/[id]: deleteBookImages(id), which deletes when the
\* bucket is configured, then prisma.book.delete, which throws when no book
\* has the id and deletes the pages of the book with it
BookDelete(session, id, configured) ==
    /\ Arrives(session)
    /\ IF ~session
       THEN /\ admin' = Guarded(session, admin)
            /\ UNCHANGED <<pages, pageCount>>
       ELSE LET deleted == [admin EXCEPT !.images = IF configured THEN @ \ {id} ELSE @]
            IN  IF findBook(admin, id) = Null
                THEN /\ admin' = Respond(deleted, [status |-> 500, error |-> "Failed to delete book"])
                     /\ UNCHANGED <<pages, pageCount>>
                ELSE /\ admin' = [deleted EXCEPT
                           !.books[id] = Absent,
                           !.imageUrl = {u \in @ : \E pg \in deleteMany(pages, id) : pg.id = u.pageId},
                           !.response = [status |-> 200, success |-> TRUE]]
                     /\ pages' = deleteMany(pages, id)
                     /\ pageCount' = [pageCount EXCEPT ![id] = 0]
    /\ UNCHANGED <<nextId, gen, regen, notAdminNorStore>>

\* GET /api/admin/books/[id]/download: every page rendered printable
Download(session, id) ==
    /\ Arrives(session)
    /\ admin' = Guarded(session,
          IF findBook(admin, id) = Null
          THEN Respond(admin, [status |-> 404, error |-> "Book not found"])
          ELSE IF bookPages(pages, id) = <<>>
          THEN Respond(admin, [status |-> 400, error |-> "No pages generated for this book"])
          ELSE Respond(admin, [status |-> 200,
                  printable |-> [k \in 1..Len(bookPages(pages, id)) |-> bookPages(pages, id)[k].code]]))
    /\ UNCHANGED notAdmin

\* GET /api/admin/books/[id]/theme
ThemeGet(session, id) ==
    /\ Arrives(session)
    /\ admin' = Guarded(session,
          LET book == findBook(admin, id)
              theme == mergeWithDefault(DEFAULT_THEME, book.themeConfig)
          IN  IF book = Null
              THEN Respond(admin, [status |-> 404, error |-> "Book not found"])
              ELSE Respond(admin, [status |-> 200, themeConfig |-> theme,
                                   warnings |-> validateTheme(theme),
                                   sampleCodes |-> pageCodes(pages, id)]))
    /\ UNCHANGED notAdmin

\* PUT /api/admin/books/[id]/theme with body { preset } or { themeConfig }
ThemePut(session, id, body) ==
    /\ Arrives(session)
    /\ admin' = Guarded(session,
          IF Has(body, "preset") /\ Has(PRESET_THEMES, body.preset)
          THEN IF findBook(admin, id) = Null
               THEN Respond(admin, [status |-> 500, error |-> "Failed to update theme"])
               ELSE LET fullTheme == mergeWithDefault(DEFAULT_THEME, PRESET_THEMES[body.preset])
                    IN  [admin EXCEPT
                           !.books[id].v.themeConfig = PRESET_THEMES[body.preset],
                           !.response = [status |-> 200, themeConfig |-> fullTheme,
                                         warnings |-> validateTheme(fullTheme)]]
          ELSE IF ~(Has(body, "themeConfig") /\ themeConfigSchema(body.themeConfig))
          THEN Respond(admin, [status |-> 400, error |-> "Invalid theme configuration"])
          ELSE IF findBook(admin, id) = Null
          THEN Respond(admin, [status |-> 404, error |-> "Book not found"])
          ELSE LET data == schemaData(body.themeConfig)
                   fullTheme == mergeWithDefault(DEFAULT_THEME, data)
               IN  [admin EXCEPT
                      !.books[id].v.themeConfig = data,
                      !.response = [status |-> 200, themeConfig |-> fullTheme,
                                    warnings |-> validateTheme(fullTheme)]])
    /\ UNCHANGED notAdmin

\* DELETE /api/admin/books/[id]/theme
ThemeDelete(session, id) ==
    /\ Arrives(session)
    /\ admin' = Guarded(session,
          IF findBook(admin, id) = Null
          THEN Respond(admin, [status |-> 404, error |-> "Book not found"])
          ELSE [admin EXCEPT !.books[id].v.themeConfig = Null,
                             !.response = [status |-> 200, success |-> TRUE]])
    /\ UNCHANGED notAdmin

\* GET /api/admin/books/[id]/theme-preview?sampleCodes=
ThemePreviewGet(session, id, sampleCodes) ==
    /\ Arrives(session)
    /\ admin' = Guarded(session,
          LET book == findBook(admin, id)
          IN  IF book = Null
              THEN Respond(admin, [status |-> 404, error |-> "Book not found"])
              ELSE Respond(admin, [status |-> 200,
                      samples |-> previewSamples(previewCodes(sampleCodes, pages, id),
                                                 book.themeConfig)]))
    /\ UNCHANGED notAdmin

\* POST /api/admin/books/[id]/theme-preview with body { themeConfig, sampleCodes }
ThemePreviewPost(session, id, body) ==
    /\ Arrives(session)
    /\ admin' = Guarded(session,
          IF findBook(admin, id) = Null
          THEN Respond(admin, [status |-> 404, error |-> "Book not found"])
          ELSE Respond(admin, [status |-> 200,
                  samples |-> previewSamples(previewCodes(body.sampleCodes, pages, id),
                                             body.themeConfig)]))
    /\ UNCHANGED notAdmin

\* POST /api/admin/books/[id]/regenerate-with-theme with body { pageIds };
\* rendered tells whether the renders succeed
RegenerateWithTheme(session, id, pageIds, rendered) ==
    /\ Arrives(session)
    /\ admin' = Guarded(session,
          LET book == findBook(admin, id)
              all == bookPages(pages, id)
              pagesToRegenerate ==
                  IF pageIds # {} THEN SelectSeq(all, LAMBDA pg : pg.id \in pageIds) ELSE all
              ids == {pagesToRegenerate[k].id : k \in 1..Len(pagesToRegenerate)}
          IN  IF book = Null
              THEN Respond(admin, [status |-> 404, error |-> "Book not found"])
              ELSE IF pagesToRegenerate = <<>>
              THEN Respond(admin, [status |-> 200, success |-> TRUE, regenerated |-> 0])
              ELSE IF ~rendered
              THEN Respond(admin, [status |-> 200, success |-> FALSE, regenerated |-> 0])
              ELSE [admin EXCEPT
                      !.imageUrl = {u \in @ : u.pageId \notin ids}
                          \cup { [ pageId |-> pagesToRegenerate[k].id,
                                   image |-> previewSamples(<<pagesToRegenerate[k].code>>,
                                                            book.themeConfig)[1] ] :
                                 k \in 1..Len(pagesToRegenerate) },
                      !.response = [status |-> 200, success |-> TRUE,
                                    regenerated |-> Len(pagesToRegenerate)]])
    /\ UNCHANGED notAdmin

\* the bodies of the book requests
BookBodies ==
    { [title |-> <<"T">>, author |-> <<"A">>, pageCount |-> 1],
      [title |-> <<>>, author |-> <<"A">>, pageCount |-> 1],
      [title |-> <<"U">>] }

\* the bodies of PUT theme and of POST theme-preview
ThemePutBodies ==
    { [preset |-> name] : name \in {"forestGreen", "noSuchPreset"} }
        \cup { [themeConfig |-> config] : config \in ThemeConfigs \ {Null} }
        \cup { [title |-> <<"T">>] }
PreviewBodies ==
    { [themeConfig |-> config, sampleCodes |-> <<>>] : config \in ThemeConfigs }
        \cup { [themeConfig |-> Null, sampleCodes |-> list] : list \in SampleCodes }

NextAdmin ==
    \/ \E session \in BOOLEAN : BooksList(session)
    \/ \E session \in BOOLEAN, body \in BookBodies : BooksCreate(session, body)
    \/ \E session \in BOOLEAN, id \in Books \cup {"b0"} : BookGet(session, id)
    \/ \E session \in BOOLEAN, id \in Books \cup {"b0"}, body \in BookBodies :
          BookUpdate(session, id, body)
    \/ \E session \in BOOLEAN, id \in Books \cup {"b0"}, configured \in BOOLEAN :
          BookDelete(session, id, configured)
    \/ \E p \in GenRequests, bookId \in Books \cup {"b0"}, n \in 0..MaxPages :
          GenStart(p, FALSE, bookId, n)
    \/ \E session \in BOOLEAN, id \in Books \cup {"b0"} : Download(session, id)
    \/ \E session \in BOOLEAN, id \in Books \cup {"b0"} : ThemeGet(session, id)
    \/ \E session \in BOOLEAN, id \in Books \cup {"b0"}, body \in ThemePutBodies :
          ThemePut(session, id, body)
    \/ \E session \in BOOLEAN, id \in Books \cup {"b0"} : ThemeDelete(session, id)
    \/ \E session \in BOOLEAN, id \in Books \cup {"b0"}, sampleCodes \in SampleCodes :
          ThemePreviewGet(session, id, sampleCodes)
    \/ \E session \in BOOLEAN, id \in Books \cup {"b0"}, body \in PreviewBodies :
          ThemePreviewPost(session, id, body)
    \/ \E session \in BOOLEAN, id \in Books \cup {"b0"}, pageIds \in {{}, {1}, {9}},
          rendered \in BOOLEAN : RegenerateWithTheme(session, id, pageIds, rendered)
    \/ \E p \in RegenRequests, pageId \in 1..(MaxPages + 1) : RegenStart(p, FALSE, pageId)

SpecAdmin == InitAdmin /\ [][NextAdmin]_vars

-----------------------------------------------------------------------------
(* generateThemedWaveCode on the themes themeConfigSchema accepts: the       *)
(* dimensions, bar styles and colour schemes at the ends of the schema's     *)
(* ranges and in between.                                                    *)

\* dimensions over the schema's ranges (mm, mm, dpi)
DimensionConfigs ==
    { [dimensions |-> [width |-> w, height |-> h, dpi |-> d]] :
        w \in {1, 15, 100}, h \in {1, 2, 5, 50}, d \in {72, 300, 1200} }

\* bar styles over the schema's ranges, alone and on the smallest and the
\* largest canvas
BarStyleConfigs ==
    { [barStyle |-> [shape |-> shape, thickness |-> t, spacing |-> sp]] :
        shape \in {"rectangle", "rounded", "circular", "triangle"},
        t \in {1, 5, 10}, sp \in {1, 3, 5} }
    \cup
    { [barStyle |-> [shape |-> "rounded", thickness |-> 5, spacing |-> 3, roundness |-> r]] :
        r \in {0, 50, 100} }
    \cup
    { [ barStyle |-> [shape |-> "rectangle", thickness |-> t, spacing |-> sp],
        dimensions |-> dims ] :
        t \in {1, 10}, sp \in {1, 5},
        dims \in { [width |-> 1, height |-> 1, dpi |-> 72],
                   [width |-> 1, height |-> 1, dpi |-> 1200],
                   [width |-> 100, height |-> 50, dpi |-> 1200] } }

\* colour schemes: solid, dual-tone and gradient, with and without a
\* secondary colour, the gradient at the angles 0, 45, 90, 360 and at none
ColorSchemes ==
    LET base(type) == [type |-> type, primary |-> Hex("2","D","5","A","2","7"),
                       background |-> Grey("F")]
        two(type) == Spread(base(type), [secondary |-> Hex("8","F","B","C","8","F")])
    IN  { base("solid"), base("dual-tone"), two("dual-tone"), base("gradient"), two("gradient") }
        \cup { Spread(two("gradient"), [gradientAngle |-> a]) : a \in {0, 45, 90, 360} }

ColourConfigs ==
    { [ colorScheme |-> scheme,
        barStyle |-> [shape |-> shape, thickness |-> 5, spacing |-> 3],
        effects |-> [shadow |-> shadow, opacity |-> 100] ] :
        scheme \in ColorSchemes,
        shape \in {"rectangle", "rounded", "circular", "triangle"},
        shadow \in BOOLEAN }

\* the configurations rendered: those of the above the schema accepts
SchemaConfigs ==
    { config \in DimensionConfigs \cup BarStyleConfigs \cup ColourConfigs :
        themeConfigSchema(config) }

InitLayout ==
    /\ IdleEditor
    /\ IdleLookup
    /\ IdleBucket
    /\ IdleFlight
    /\ IdleAdmin
    /\ IdleValidate
    /\ IdleRate
    /\ IdleBatch
    /\ IdleStore
    /\ IdleCodec
    /\ IdleGen
    /\ DEFAULT_THEME = DefaultThemeValue
    /\ PRESET_THEMES = PresetThemesValue
    /\ themeConfig \in SchemaConfigs
    /\ renderCode \in RenderCodes
    /\ themeRet = NoCall
    /\ memo = <<>>

\* generateThemedWaveCode(renderCode, themeConfig), called once
RenderSchemaTheme ==
    /\ themeRet = NoCall
    /\ LET call == generateThemedWaveCodeCall(DEFAULT_THEME, renderCode, themeConfig)
       IN  /\ themeRet' = [fn |-> "generateThemedWaveCode", val |-> call.ret]
           /\ DEFAULT_THEME' = call.DEFAULT_THEME
           /\ themeConfig' = call.arg
    /\ UNCHANGED <<renderCode, PRESET_THEMES, memo, notTheme>>

NextLayout == RenderSchemaTheme

SpecLayout == InitLayout /\ [][NextLayout]_vars

-----------------------------------------------------------------------------
(* The batch paths render by render: generateWaveCodes,                     *)
(* generateThemedWaveCodes and the Promise.all of regenerate-with-theme.    *)
(* list.map(async ...) starts the render of every item of the list it is    *)
(* called on; the renders complete one by one in any order; await           *)
(* Promise.all resumes when all have completed.                             *)

\* the batch paths
FlightPaths == {"generateWaveCodes", "generateThemedWaveCodes", "regenerate-with-theme"}

\* how many items the map of one pass is called on: codes.slice(i, i +
\* batchSize) in the two batch functions, pagesToRegenerate in the route
chunkLength(path, n, i) ==
    IF path = "regenerate-with-theme" THEN n ELSE Min(batchSize, n - i)

\* the lengths of the lists: none, one, a full batch, one more, and two more
FlightLengths == {0, 1, batchSize, batchSize + 1, batchSize + 2}

InitFlight ==
    /\ IdleEditor
    /\ IdleLookup
    /\ IdleBucket
    /\ IdleAdmin
    /\ IdleValidate
    /\ IdleRate
    /\ IdleBatch
    /\ IdleCodec
    /\ IdleGen
    /\ IdleTheme
    /\ IdleStore
    /\ flight = NoFlight

\* the path is entered with a list of n items
FlightCall(path, n) ==
    /\ flight.pc = "idle"
    /\ flight' = [flight EXCEPT !.pc = IF path = "regenerate-with-theme" /\ n = 0
                                       THEN "done" ELSE "loop",
                                !.path = path, !.n = n]
    /\ UNCHANGED notFlight

\* const promises = batch.map(async code => ...): the renders of the pass start
FlightStart ==
    /\ flight.pc = "loop"
    /\ flight.i < flight.n
    /\ flight' = [flight EXCEPT !.pc = "await",
                                !.started = @ + chunkLength(flight.path, flight.n, flight.i)]
    /\ UNCHANGED notFlight

\* one render that is in flight completes
FlightComplete ==
    /\ flight.pc = "await"
    /\ flight.completed < flight.started
    /\ flight' = [flight EXCEPT !.completed = @ + 1]
    /\ UNCHANGED notFlight

\* await Promise.all(promises) resumes; i += batchSize (the route has one pass)
FlightResume ==
    /\ flight.pc = "await"
    /\ flight.completed = flight.started
    /\ flight' = [flight EXCEPT !.pc = "loop", !.i = flight.started]
    /\ UNCHANGED notFlight

\* the loop condition fails: return
FlightReturn ==
    /\ flight.pc = "loop"
    /\ flight.i >= flight.n
    /\ flight' = [flight EXCEPT !.pc = "done"]
    /\ UNCHANGED notFlight

NextFlight ==
    \/ \E path \in FlightPaths, n \in FlightLengths : FlightCall(path, n)
    \/ FlightStart
    \/ FlightComplete
    \/ FlightResume
    \/ FlightReturn

SpecFlight == InitFlight /\ [][NextFlight]_vars

-----------------------------------------------------------------------------
(* POST /api/validate query by query.  The handler reads the store three    *)
(* times: findUnique for the page of the code, the two findFirst of         *)
(* Promise.all for the neighbours, findMany for the prefetch list.  Every   *)
(* await ends a step, and regenerate requests run between the steps.        *)

\* the codes generateUniqueCode() draws while a lookup runs: the codes of the
\* two stored pages and one code no page holds
LookupCodes ==
    {Edit(Filler(CODE_LENGTH), <<<<CODE_LENGTH, ALPHABET[k]>>>>, 1) : k \in 1..3}

\* prisma.page.findMany({ where: { bookId, pageNumber: { gt, lte: + 2 } },
\* orderBy: { pageNumber: 'asc' } }) mapped to { code, page_number }
prefetchPages(store, page) ==
    LET at(n) == {pg \in store : pg.bookId = page.bookId
                                  /\ pg.pageNumber = page.pageNumber + n}
        entry(n) == IF at(n) = {} THEN Null
                    ELSE [code |-> Str((CHOOSE pg \in at(n) : TRUE).code),
                          page_number |-> page.pageNumber + n]
    IN  SelectSeq(<<entry(1), entry(2)>>, LAMBDA e : e # Null)

InitLookup ==
    /\ IdleEditor
    /\ IdleFlight
    /\ IdleAdmin
    /\ IdleCodec
    /\ IdleGen
    /\ IdleTheme
    /\ IdleBatch
    /\ IdleValidate
    /\ pages = ValidatePages
    /\ pageCount = [b \in Books |-> IF b = "b1" THEN 2 ELSE 0]
    /\ nextId = 3
    /\ gen = [p \in GenRequests |-> NoGenRequest]
    /\ regen = [p \in RegenRequests |-> NoRegenRequest]
    /\ bucket = {imageFile(pg.bookId, pg.code) : pg \in ValidatePages}
    /\ rateLimitCache = <<>>
    /\ now = 0
    /\ rateOptions = ValidateRateOptions
    /\ rateLog = <<>>
    /\ rateBudget = [ticks |-> 0, bursts |-> 0]
    /\ lookup = NoLookup

\* the handler up to its first store read: rateLimit, request.json(),
\* safeParse, then prisma.page.findUnique({ where: { code: code.toUpperCase() } })
LookupFindUnique(body) ==
    /\ lookup.pc = "idle"
    /\ LET rateLimitResult == rateLimit(rateLimitCache, DefaultClientIP, rateOptions, now)
           found == {pg \in pages : pg.code = toUpperCase(body.code.s)}
           answer(response) ==
               [pc |-> "done", body |-> body,
                response |-> WithRateLimitHeaders(response, rateLimitResult.ret)]
       IN  /\ rateLimitCache' = rateLimitResult.cache
           /\ lookup' =
                IF ~rateLimitResult.ret.success
                THEN answer([status |-> 429, valid |-> FALSE, message |-> "Rate limit exceeded"])
                ELSE IF body = MalformedBody
                THEN [pc |-> "done", body |-> body,
                      response |-> [status |-> 500, valid |-> FALSE,
                                    message |-> "Internal server error"]]
                ELSE IF ~validateCodeSchema(body)
                THEN answer([status |-> 400, valid |-> FALSE, message |-> "Invalid code format"])
                ELSE IF found = {}
                THEN answer([status |-> 404, valid |-> FALSE, message |-> "Code not found"])
                ELSE [pc |-> "findFirst", body |-> body,
                      currentPage |-> CHOOSE pg \in found : TRUE,
                      result |-> rateLimitResult.ret]
    /\ UNCHANGED <<now, rateOptions, rateLog, rateBudget, notLookupNorRate>>

\* const [nextPage, prevPage] = await Promise.all([findFirst, findFirst])
LookupFindFirst ==
    /\ lookup.pc = "findFirst"
    /\ lookup' = Spread([lookup EXCEPT !.pc = "findMany"],
          [ nextPage |-> CodeOfPage(pages, lookup.currentPage.bookId,
                                    lookup.currentPage.pageNumber + 1),
            prevPage |-> CodeOfPage(pages, lookup.currentPage.bookId,
                                    lookup.currentPage.pageNumber - 1) ])
    /\ UNCHANGED notLookup

\* const prefetchPages = await prisma.page.findMany(...); the response
LookupFindMany ==
    /\ lookup.pc = "findMany"
    /\ lookup' =
          [ pc |-> "done", body |-> lookup.body,
            response |-> WithRateLimitHeaders(
                [ status |-> 200, valid |-> TRUE,
                  book_id |-> lookup.currentPage.bookId,
                  page_number |-> lookup.currentPage.pageNumber,
                  next_code |-> lookup.nextPage,
                  prev_code |-> lookup.prevPage,
                  prefetch |-> prefetchPages(pages, lookup.currentPage) ],
                lookup.result) ]
    /\ UNCHANGED notLookup

NextLookup ==
    \/ \E body \in ValidateBodies : LookupFindUnique(body)
    \/ LookupFindFirst
    \/ LookupFindMany
    \/ \E p \in RegenRequests, pageId \in 1..2 : RegenStart(p, TRUE, pageId)
    \/ \E p \in RegenRequests, c \in LookupCodes : RegenCandidate(p, c)
    \/ \E p \in RegenRequests : RegenFindUnique(p)
    \/ \E p \in RegenRequests, uploaded \in BOOLEAN : RegenUpload(p, uploaded)
    \/ \E p \in RegenRequests : RegenUpdate(p)

SpecLookup == InitLookup /\ [][NextLookup]_vars

-----------------------------------------------------------------------------
(* app/admin/books/[id]/theme/page.tsx: the theme editor.  The page loads   *)
(* the stored theme (fetchTheme), and an effect on theme starts a 300 ms    *)
(* timer that calls fetchPreviews(theme); a change of theme clears the      *)
(* timer and starts a new one.  Each fetchPreviews call is a request of its *)
(* own, and the responses arrive in any order.                              *)

\* handlePresetChange(presetName): the theme handed to setTheme
handlePresetChange(presetName) ==
    mergeWithDefault(DefaultThemeValue, PresetThemesValue[presetName])

\* the presets chosen in the editor
EditorPresets == {"oceanBlue", "midnightPurple"}

\* the themes a book is stored with
StoredThemes == {DefaultThemeValue, handlePresetChange("oceanBlue")}

\* useState<PreviewSample[]>([])
NoPreviews == [seq |-> 0, samples |-> <<>>]

\* data.samples of the response to request seq: rendered with its themeConfig
Samples(seq, config) == [seq |-> seq, samples |-> <<config>>]

\* fetchPreviews(themeConfig) up to its await fetch: one more request in flight
fetchPreviews(e, config) ==
    [e EXCEPT !.requests = Append(@, config),
              !.pending = @ \cup {Len(e.requests) + 1}]

\* the page after mounting: theme is DEFAULT_THEME, the effect on theme has
\* started its timer, the effect on session has called fetchTheme
InitEditor ==
    /\ IdleLookup
    /\ IdleBucket
    /\ IdleFlight
    /\ IdleAdmin
    /\ IdleValidate
    /\ IdleRate
    /\ IdleBatch
    /\ IdleCodec
    /\ IdleGen
    /\ IdleTheme
    /\ IdleStore
    /\ editor = [ open |-> TRUE, theme |-> DefaultThemeValue, timer |-> TRUE,
                  loading |-> TRUE, requests |-> <<>>, pending |-> {}, answeredOk |-> {},
                  previews |-> NoPreviews, edits |-> 0 ]

\* the response to fetchTheme arrives: setTheme(data.themeConfig), which
\* restarts the timer, and fetchPreviews(data.themeConfig); finally
\* setLoading(false)
FetchThemeAnswer(ok, config) ==
    /\ editor.open
    /\ editor.loading
    /\ editor' = IF ok
                 THEN [fetchPreviews(editor, config) EXCEPT
                          !.theme = config, !.timer = TRUE, !.loading = FALSE]
                 ELSE [editor EXCEPT !.loading = FALSE]
    /\ UNCHANGED notEditor

\* the admin picks a preset: setTheme(...), and the effect clears the timer
\* and starts a new one
PresetChange(presetName) ==
    /\ editor.open
    /\ ~editor.loading
    /\ editor.edits < MaxEdits
    /\ editor' = [editor EXCEPT !.theme = handlePresetChange(presetName),
                                !.timer = TRUE, !.edits = @ + 1]
    /\ UNCHANGED notEditor

\* the timer fires: fetchPreviews(theme)
DebounceFires ==
    /\ editor.open
    /\ editor.timer
    /\ editor' = [fetchPreviews(editor, editor.theme) EXCEPT !.timer = FALSE]
    /\ UNCHANGED notEditor

\* the response to preview request seq arrives: if (response.ok)
\* setPreviews(data.samples)
PreviewAnswer(seq, ok) ==
    /\ editor.open
    /\ seq \in editor.pending
    /\ editor' = [editor EXCEPT
          !.pending = @ \ {seq},
          !.answeredOk = IF ok THEN @ \cup {seq} ELSE @,
          !.previews = IF ok THEN Samples(seq, editor.requests[seq]) ELSE @]
    /\ UNCHANGED notEditor

NextEditor ==
    \/ \E ok \in BOOLEAN, config \in StoredThemes : FetchThemeAnswer(ok, config)
    \/ \E presetName \in EditorPresets : PresetChange(presetName)
    \/ DebounceFires
    \/ \E seq \in 1..(MaxEdits + 2), ok \in BOOLEAN : PreviewAnswer(seq, ok)

SpecEditor == InitEditor /\ [][NextEditor]_vars

\* C7: for every integer count from 0 up to the size of the code space,
\* generateUniqueCodes(count) terminates (given a fair random source) and
\* returns exactly count pairwise-distinct codes, each 6 characters of
\* A-Z0-9; a duplicate draw never shortens or duplicates the result.
C7_UniqueCodes ==
    /\ (count <= Cardinality(CodePool)) => <>(pcGen = "done")
    /\ [](pcGen = "done" =>
            /\ Len(genResult) = count
            /\ \A i, j \in 1..Len(genResult) : i # j => genResult[i] # genResult[j]
            /\ \A i \in 1..Len(genResult) : ValidCode(Str(genResult[i])))
    /\ [][Len(codes') >= Len(codes)]_vars

\* a run in which the whole code space was asked for and returned
C7_Witness ==
    /\ pcGen = "done"
    /\ count = Cardinality(CodePool)
    /\ Len(genResult) = count

\* every field name of a theme section
FieldsOf(section) ==
    CASE section = "colorScheme" -> {"type", "primary", "secondary", "background", "gradientAngle"}
      [] section = "barStyle" -> {"shape", "thickness", "spacing", "roundness"}
      [] section = "effects" -> {"shadow", "shadowColor", "shadowBlur", "opacity"}
      [] section = "dimensions" -> {"width", "height", "dpi"}

\* C8: mergeWithDefault(null) equals DEFAULT_THEME, and for every partial
\* theme p, section s and field f the merged s.f is p.s.f when p specifies it
\* and DEFAULT_THEME.s.f otherwise; a section absent from p is exactly the
\* default section.
C8_NestedMerge ==
    themeRet.fn = "mergeWithDefault" =>
        LET p == themeRet.arg
            merged == themeRet.val
        IN  /\ p = Null => merged = DefaultThemeValue
            /\ DOMAIN merged = Sections
            /\ \A sec \in Sections :
                  /\ ~Has(p, sec) => merged[sec] = DefaultThemeValue[sec]
                  /\ \A f \in FieldsOf(sec) :
                        IF Has(p, sec) /\ Has(p[sec], f)
                            THEN Has(merged[sec], f) /\ merged[sec][f] = p[sec][f]
                        ELSE IF Has(DefaultThemeValue[sec], f)
                            THEN Has(merged[sec], f)
                                 /\ merged[sec][f] = DefaultThemeValue[sec][f]
                        ELSE ~Has(merged[sec], f)

\* a partial that sets colorScheme.primary and not colorScheme.background,
\* and has no barStyle section
C8_Witness ==
    /\ themeRet.fn = "mergeWithDefault"
    /\ Has(themeRet.arg, "colorScheme")
    /\ DOMAIN themeRet.arg.colorScheme = {"primary"}
    /\ ~Has(themeRet.arg, "barStyle")
    /\ themeRet.val.colorScheme.primary = Grey("C")
    /\ themeRet.val.colorScheme.background = Grey("F")
    /\ themeRet.val.barStyle = DefaultThemeValue.barStyle

\* the warnings of one type in a list
OfType(warnings, type) == {k \in 1..Len(warnings) : warnings[k].type = type}

\* the list holds exactly one warning of the type, of the severity, when
\* cond holds, and none of the type otherwise
ExactlyWhen(warnings, type, cond, severity) ==
    IF cond
    THEN /\ Cardinality(OfType(warnings, type)) = 1
         /\ \A k \in OfType(warnings, type) : warnings[k].severity = severity
    ELSE OfType(warnings, type) = {}

\* C9: validateTheme returns exactly one warning for each condition that
\* holds and none for a condition that does not: contrast of primary against
\* background below 4.5 (error below 3, else warning), thickness < 2
\* (warning), opacity < 70 (warning), width < 5 (warning), dpi < 300 (error);
\* every combination yields all its warnings, DEFAULT_THEME yields none.
C9_IndependentWarnings ==
    themeRet.fn = "validateTheme" =>
        LET theme == themeRet.arg
            w == themeRet.val
            contrast == getContrastRatio(theme.colorScheme.primary,
                                         theme.colorScheme.background)
        IN  /\ ExactlyWhen(w, "contrast", RatioBelow(contrast, 45),
                           IF RatioBelow(contrast, 30) THEN "error" ELSE "warning")
            /\ ExactlyWhen(w, "thickness", theme.barStyle.thickness < 2, "warning")
            /\ ExactlyWhen(w, "opacity", theme.effects.opacity < 70, "warning")
            /\ ExactlyWhen(w, "size", theme.dimensions.width < 5, "warning")
            /\ ExactlyWhen(w, "dpi", theme.dimensions.dpi < 300, "error")
            /\ \A k \in 1..Len(w) :
                  w[k].type \in {"contrast", "thickness", "opacity", "size", "dpi"}
            /\ theme = DefaultThemeValue => w = <<>>

\* a theme for which all five conditions hold, the contrast one as a warning
C9_Witness ==
    /\ themeRet.fn = "validateTheme"
    /\ Len(themeRet.val) = 5
    /\ \E k \in 1..5 : themeRet.val[k] = Warning("contrast", "warning")
    /\ \E k \in 1..5 : themeRet.val[k] = Warning("dpi", "error")

C10_NoTwoPagesShareACode ==
    \A p1 \in pages, p2 \in pages : p1.code = p2.code => p1 = p2

\* a regenerate request and a generate-codes request both found the same
\* candidate free; the regenerate request stored it first and the page of the
\* generate-codes request was refused by the store
C10_Witness ==
    \E g \in GenRequests, r \in RegenRequests :
        /\ regen[r].status = 200
        /\ \E pg \in pages : pg.id = regen[r].pageId /\ pg.code = regen[r].newCode
        /\ \E k \in 1..Len(gen[g].results) :
              /\ gen[g].results[k].error = UniqueConstraintError
              /\ k < Len(gen[g].results)
              /\ gen[g].results[k + 1].success
        /\ Cardinality(pages) >= 2

\* C11: issuing a code for a page (in generate-codes and in regenerate) draws
\* at most 10 candidates, and a candidate that the store and the in-batch set
\* do not hold is issued to the page, also when it is the 10th: issuance
\* fails only when all 10 candidates collided.
C11_FreeCandidateIsIssued ==
    /\ [](\A p \in GenRequests : gen[p].attempts <= maxAttempts)
    /\ [](\A p \in RegenRequests : regen[p].attempts <= maxAttempts)
    /\ [][\A p \in GenRequests :
            (/\ gen[p].pc = "findUnique"
             /\ gen'[p] # gen[p]
             /\ ~findUniqueByCode(pages, gen[p].code))
            => /\ gen'[p].pc = "upload"
               /\ gen'[p].code = gen[p].code
               /\ gen[p].code \in gen'[p].existingCodes]_vars
    /\ [][\A p \in RegenRequests :
            (/\ regen[p].pc = "findUnique"
             /\ regen'[p] # regen[p]
             /\ ~findUniqueByCode(pages, regen[p].newCode))
            => /\ regen'[p].pc = "upload"
               /\ regen'[p].newCode = regen[p].newCode]_vars

\* C12: in every batch render operation a failure to render one item does
\* not abort the batch: when the call is over, every item whose render did
\* not fail is in the returned results with its image.
C12_ItemFailureDoesNotAbort ==
    batch.pc = "done" =>
        \A k \in 1..Len(batch.codes) :
            ~itemRejects(batch, k) =>
                /\ ~batch.ret.threw
                /\ \E e \in 1..Len(batch.ret.val) :
                      batch.ret.val[e] =
                          <<batch.codes[k], batchImage(batch.fn, batch.codes[k], batch.options)>>

\* the calls of the log before call j that were allowed to the same
\* identifier in the window (t - interval, t] of call j
AllowedInWindow(j) ==
    LET interval == Spread(DEFAULT_RATE_OPTIONS, rateOptions).interval
    IN  { i \in 1..(j - 1) :
            /\ rateLog[i].id = rateLog[j].id
            /\ rateLog[i].ret.success
            /\ rateLog[i].t > rateLog[j].t - interval }

\* C13: a rateLimit call at t is allowed if and only if fewer than `limit`
\* calls by that identifier were allowed in the window (t - interval, t]; so
\* no identifier gets more than `limit` allowed calls in a window, whatever
\* other identifiers do.
C13_AllowedIffUnderLimit ==
    \A j \in 1..Len(rateLog) :
        rateLog[j].ret.success
            <=> Cardinality(AllowedInWindow(j)) < Spread(DEFAULT_RATE_OPTIONS, rateOptions).limit

\* the lookups of C14: the body holds a string that is not in upper case and
\* whose upper case is the code of a stored page, and the rate limit let the
\* request pass
LooksUpStoredCodeInLowerCase ==
    /\ validate # NoCall
    /\ Has(validate.arg, "code")
    /\ IsString(validate.arg.code)
    /\ validate.arg.code.s # toUpperCase(validate.arg.code.s)
    /\ findUniqueByCode(pages, toUpperCase(validate.arg.code.s))
    /\ validate.val.status # 429

\* C14: POST /api/validate treats codes case-insensitively: a lowercase code
\* whose uppercase form is stored is never answered 400 and resolves to the
\* page the uppercase code resolves to.
C14_LowerCaseResolves ==
    LooksUpStoredCodeInLowerCase =>
        /\ validate.val.status # 400
        /\ validate.val.status = 200
        /\ \E pg \in pages :
            /\ pg.code = toUpperCase(validate.arg.code.s)
            /\ validate.val.page_number = pg.pageNumber
            /\ validate.val.book_id = pg.bookId

\* what an admin request can touch: the books, the bucket, the page images
\* and the page store
AdminStateUnchanged ==
    /\ admin'.books = admin.books
    /\ admin'.images = admin.images
    /\ admin'.imageUrl = admin.imageUrl
    /\ UNCHANGED <<pages, pageCount, nextId>>

\* C15: without an authenticated session every admin endpoint answers 401 and
\* leaves the store, the image storage and the renderer untouched (in
\* SpecAdmin every generate-codes and page regenerate request comes without
\* a session).
C15_NoSessionNoEffect ==
    /\ [][(adminBudget' # adminBudget /\ ~adminSession')
            => (admin'.response = Unauthorized /\ AdminStateUnchanged)]_vars
    /\ [][\A p \in GenRequests : (gen[p].pc = "idle" /\ gen'[p].pc # "idle")
            => (gen'[p] = GenRespond(NoGenRequest, 401) /\ AdminStateUnchanged)]_vars
    /\ [][\A p \in RegenRequests : (regen[p].pc = "idle" /\ regen'[p].pc # "idle")
            => (regen'[p] = RegenRespond(NoRegenRequest, 401, None) /\ AdminStateUnchanged)]_vars

\* a request without a session was answered 401 after a request with one had
\* changed the books, and generate-codes and page regenerate were turned away
C15_Witness ==
    /\ admin.response = Unauthorized
    /\ ~adminSession
    /\ admin.books # NoAdmin.books
    /\ \E p \in GenRequests : gen[p].status = 401
    /\ \E p \in RegenRequests : regen[p].status = 401

\* a configuration the claim lets through: none (the default theme), a
\* built-in preset, or one the schema accepts
PassedTheBoundary(config) ==
    \/ config = Null
    \/ \E name \in DOMAIN PRESET_THEMES : config = PRESET_THEMES[name]
    \/ themeConfigSchema(config)

\* C16: every theme configuration that reaches the renderer through a route
\* (preview GET and POST, regenerate-with-theme) or the store (theme PUT) is
\* the default, a preset or a configuration that passed the theme schema.
C16_OnlySchemaThemesRendered ==
    /\ \A b \in Books : admin.books[b].present => PassedTheBoundary(admin.books[b].v.themeConfig)
    /\ Has(admin.response, "samples") =>
          \A k \in 1..Len(admin.response.samples) :
              PassedTheBoundary(admin.response.samples[k].config)
    /\ \A u \in admin.imageUrl : PassedTheBoundary(u.image.config)

\* a themed render was made
Rendered == themeRet # NoCall /\ themeRet.fn = "generateThemedWaveCode" /\ ~themeRet.val.threw

\* the theme of the render made last, and its scene
RenderedTheme == mergeWithDefault(DefaultThemeValue, themeConfig)
Scene == themeRet.val.scene

\* the top and the bottom edge of a bar drawn as one element
Top(el) == IF el.shape.tag = "polygon" THEN el.shape.top ELSE el.shape.y
Bottom(el) == IF el.shape.tag = "polygon" THEN el.shape.bottom ELSE el.shape.y + el.shape.height
\* twice the left and the right edge of a shape element
Left2(el) ==
    CASE el.shape.tag = "polygon" -> 2 * el.shape.left
      [] el.shape.tag = "rect" -> 2 * el.shape.x
      [] el.shape.tag = "circle" -> el.shape.cx2 - el.shape.r2
Right2(el) ==
    CASE el.shape.tag = "polygon" -> 2 * el.shape.right
      [] el.shape.tag = "rect" -> 2 * (el.shape.x + el.shape.width)
      [] el.shape.tag = "circle" -> el.shape.cx2 + el.shape.r2

\* the bars of the scene that are one rectangle or one triangle
BoxBars == {k \in 1..Len(Scene.bars) : Scene.bars[k][1].shape.tag # "circle"}

\* floor(amplitude * n) for bar k of the code rendered
FloorAmplitude(k, n) == (codeToWavePattern(renderCode)[k] * n) \div Den

\* C17: for every theme the schema accepts each bar is max(4, floor(amplitude *
\* (heightPx - 8))) px tall, at least 4 px, vertically centred, and inside the
\* canvas with at least 4 px of vertical margin in total.
C17_BarsInsideCanvas ==
    Rendered => \A k \in BoxBars :
        LET el == Scene.bars[k][1]
            barHeight == Bottom(el) - Top(el)
        IN  /\ barHeight = Max(4, FloorAmplitude(k, Scene.height - 8))
            /\ barHeight >= 4
            /\ Top(el) = (Scene.height - barHeight) \div 2
            /\ 0 <= Top(el)
            /\ Bottom(el) <= Scene.height
            /\ Scene.height - barHeight >= 4

\* the fill the colour scheme resolves to for bar k (counted from 1)
ResolvedFill(k) ==
    LET colorScheme == RenderedTheme.colorScheme
    IN  CASE colorScheme.type = "gradient" /\ HasSecondary(colorScheme) -> GradientRef
          [] colorScheme.type = "dual-tone" /\ HasSecondary(colorScheme) ->
                IF (k - 1) % 2 = 0 THEN colorScheme.primary ELSE colorScheme.secondary
          [] OTHER -> colorScheme.primary

\* C18: for every bar shape, a circular bar of several circles included,
\* every shape element of a bar carries the bar's resolved fill, and the
\* shadow filter when effects.shadow is on.
C18_EveryElementStyled ==
    Rendered => \A k \in 1..Len(Scene.bars) : \A e \in 1..Len(Scene.bars[k]) :
        /\ Scene.bars[k][e].fill = Present(ResolvedFill(k))
        /\ RenderedTheme.effects.shadow => Scene.bars[k][e].filter = Present("url(#shadow)")

\* distance of two integers
Distance(a, b) == IF a >= b THEN a - b ELSE b - a

\* the height of bar k, from the pattern of the code rendered
PatternBarHeight(k) == Max(4, FloorAmplitude(k, Scene.height - 8))

\* C19: the pixel width is round(mm / 25.4 * dpi), min(24, floor(widthPx /
\* (barWidth + barGap))) bars are drawn, they are the first pattern elements
\* in order, every bar lies horizontally inside [0, widthPx], and the left and
\* right margins of the group differ by at most 1 px.
C19_HorizontalLayout ==
    Rendered =>
        LET theme == RenderedTheme
            barWidth == baseBarWidth(theme.barStyle, theme.dimensions)
            pitch == barWidth + baseBarGap(theme.barStyle, theme.dimensions)
            n == Len(Scene.bars)
        IN  /\ 2 * Distance(254 * Scene.width, 10 * theme.dimensions.width * theme.dimensions.dpi) <= 254
            /\ n = Min(24, Scene.width \div pitch)
            /\ \A k \in 1..n :
                  /\ Left2(Scene.bars[k][1]) = Left2(Scene.bars[1][1]) + 2 * (k - 1) * pitch
                  /\ IF k \in BoxBars
                     THEN Bottom(Scene.bars[k][1]) - Top(Scene.bars[k][1]) = PatternBarHeight(k)
                     ELSE Len(Scene.bars[k]) = Max(1, PatternBarHeight(k) \div (barWidth + 1))
                  /\ \A e \in 1..Len(Scene.bars[k]) :
                        /\ 0 <= Left2(Scene.bars[k][e])
                        /\ Right2(Scene.bars[k][e]) <= 2 * Scene.width
                        /\ Right2(Scene.bars[k][e]) - Left2(Scene.bars[k][e]) = 2 * barWidth
            /\ n > 0 => Distance(Left2(Scene.bars[1][1]),
                                 2 * Scene.width - Right2(Scene.bars[n][1])) <= 2

\* a render in which not every bar fits and the margins differ by one pixel
C19_Witness ==
    /\ Rendered
    /\ Len(Scene.bars) > 1
    /\ Len(Scene.bars) < 24
    /\ Distance(Left2(Scene.bars[1][1]),
                2 * Scene.width - Right2(Scene.bars[Len(Scene.bars)][1])) = 2

\* C20: for a gradient scheme with a secondary colour every bar uses one
\* linear gradient from primary to secondary with the endpoints x = 50 -/+
\* 50 cos(a), y = 50 -/+ 50 sin(a), a being the theme's gradientAngle for
\* every angle in 0..360, 0 included, and the fallback angle only when
\* gradientAngle is absent.
C20_GradientAtThemeAngle ==
    LET colorScheme == RenderedTheme.colorScheme
        a == IF Has(colorScheme, "gradientAngle") THEN colorScheme.gradientAngle ELSE 90
    IN  (Rendered /\ colorScheme.type = "gradient" /\ HasSecondary(colorScheme)) =>
            /\ Scene.gradientDef =
                  Present([ id |-> "barGradient",
                            x1 |-> 500000 - 50 * cosDeg(a), y1 |-> 500000 - 50 * sinDeg(a),
                            x2 |-> 500000 + 50 * cosDeg(a), y2 |-> 500000 + 50 * sinDeg(a),
                            stop0 |-> colorScheme.primary, stop100 |-> colorScheme.secondary ])
            /\ \A k \in 1..Len(Scene.bars) : Scene.bars[k][1].fill = Present(GradientRef)

\* the renders in flight
InFlight == flight.started - flight.completed

\* C21: in every batch path at most 50 renders are in flight at any time,
\* items are taken in consecutive chunks of at most 50, and no render of the
\* next chunk starts before every render of the chunk before has completed.
C21_BoundedRendersInFlight ==
    /\ [](InFlight <= 50)
    /\ [][flight'.started # flight.started =>
            /\ flight.completed = flight.started
            /\ flight'.started - flight.started <= 50]_vars

\* codeToWavePattern was called on a valid code
PatternOfValidCode == ret # NoCall /\ ret.fn = "codeToWavePattern" /\ ValidAnyCase(ret.arg)

\* the ordinal of character i of the code of the call
OrdinalAt(i) == Ordinal(Uppercased(ret.arg).s[i])

\* the largest value handed to Math.min in the call
LargestUnclamped ==
    CHOOSE v \in {affineBars(OrdinalAt(i))[b] : i \in 1..6, b \in 1..4} :
        \A i \in 1..6, b \in 1..4 : affineBars(OrdinalAt(i))[b] <= v

\* C22 as stated: over all ordinals 0..35 the largest value any of the four
\* transforms takes before clamping is 1.3 (reached by the code that holds
\* the largest ordinal).
C22_AsStated ==
    /\ PatternOfValidCode => LargestUnclamped * 10 <= 13 * Den
    /\ (PatternOfValidCode /\ \E i \in 1..6 : OrdinalAt(i) = 35) =>
            LargestUnclamped * 10 = 13 * Den

\* C22: over all ordinals 0..35 the largest value any of the four transforms
\* takes before clamping is 1.2: no value is above it, and the second
\* transform takes it at ordinal 35.
C22_LargestIsTwelveTenths ==
    /\ PatternOfValidCode => LargestUnclamped * 10 <= 12 * Den
    /\ (PatternOfValidCode /\ \E i \in 1..6 : OrdinalAt(i) = 35) =>
            /\ LargestUnclamped * 10 = 12 * Den
            /\ \E i \in 1..6 : affineBars(OrdinalAt(i))[2] = LargestUnclamped

\* the pattern of a code that holds '9'
C22_Witness ==
    /\ PatternOfValidCode
    /\ \E i \in 1..6 : /\ ret.arg.s[i] = "9"
                       /\ affineBars(OrdinalAt(i))[2] * 10 = 12 * Den
                       /\ ret.val[4 * (i - 1) + 2] = Den

\* the least ordinal at which transform b is above 1, 36 when there is none
FirstAboveOne(b) ==
    CASE b = 1 -> 36
      [] b = 2 -> 29
      [] b = 3 -> 32
      [] b = 4 -> 33

\* C23 as stated: only the second transform exceeds 1 before clamping: the
\* unclamped values of bars 1, 3 and 4 are at most 1, so the clamp changes
\* bar 2 only.
C23_AsStated ==
    PatternOfValidCode =>
        \A i \in 1..6 : \A b \in {1, 3, 4} :
            /\ affineBars(OrdinalAt(i))[b] <= Den
            /\ ret.val[4 * (i - 1) + b] = affineBars(OrdinalAt(i))[b]

\* C23: the first transform never exceeds 1 before clamping; the second, third
\* and fourth do, from ordinals 29, 32 and 33 on, and exactly there the clamp
\* changes the value of the bar.
C23_ClampChangesThreeBars ==
    PatternOfValidCode =>
        \A i \in 1..6 : \A b \in 1..4 :
            /\ affineBars(OrdinalAt(i))[b] > Den <=> OrdinalAt(i) >= FirstAboveOne(b)
            /\ ret.val[4 * (i - 1) + b] # affineBars(OrdinalAt(i))[b]
                   <=> OrdinalAt(i) >= FirstAboveOne(b)

\* the pattern of a code that holds '9': bars 3 and 4 of the character are
\* above 1 before clamping and are clamped, bar 1 is exactly 1
C23_Witness ==
    /\ PatternOfValidCode
    /\ \E i \in 1..6 : /\ OrdinalAt(i) = 35
                       /\ affineBars(35)[1] = Den
                       /\ affineBars(35)[3] > Den /\ ret.val[4 * (i - 1) + 3] = Den
                       /\ affineBars(35)[4] > Den /\ ret.val[4 * (i - 1) + 4] = Den

\* no request of the route is between its arrival and its response
NotInFlight(r) == r.pc \in {"idle", "done"}

\* the page numbers and codes a generate-codes request reported successful
ReportedSuccessful(r) ==
    {<<r.results[k].pageNumber, r.results[k].code>> :
        k \in {j \in 1..Len(r.results) : r.results[j].success}}

\* the page numbers and codes stored for a book
StoredFor(store, bookId) ==
    {<<pg.pageNumber, pg.code>> : pg \in {q \in store : q.bookId = bookId}}

\* C24: once every in-flight generate-codes request for a book has completed
\* (and no other update ran), book.pageCount equals the number of pages stored
\* for the book and those pages are exactly the ones the last request reported
\* successful, under any interleaving of concurrent generate-codes requests.
C24_PageCountMatchesStoredPages ==
    [][\A p \in GenRequests :
          (/\ gen[p].pc = "finish"
           /\ gen'[p].pc = "done"
           /\ \A q \in GenRequests \ {p} : NotInFlight(gen'[q])
           /\ \A q \in RegenRequests : regen[q].pc = "idle")
          => /\ pageCount'[gen[p].bookId]
                    = Cardinality({pg \in pages' : pg.bookId = gen[p].bookId})
             /\ StoredFor(pages', gen[p].bookId) = ReportedSuccessful(gen'[p])]_vars

\* C25: a generate-codes request that is rejected (401, 404, 400), that ends
\* with 500, or that creates no page leaves the previously stored pages of the
\* book unchanged: pages are lost only when a replacement page is stored.
C25_NoReplacementNoLoss ==
    \A p \in GenRequests :
        (/\ gen[p].pc = "done"
         /\ gen[p].status \in {401, 404, 400, 500} \/ ReportedSuccessful(gen[p]) = {}
         /\ \A q \in GenRequests \ {p} : gen[q].pc = "idle"
         /\ \A q \in RegenRequests : regen[q].pc = "idle")
        => pages = StoredPages

\* C26: every successful single-page regenerate returns a newCode that differs
\* from oldCode and that no page held when it was checked; right after the
\* update the page holds newCode, its fields other than code and imageUrl are
\* unchanged, and oldCode resolves to no page.
C26_RegenerateReplacesTheCode ==
    /\ [][\A p \in RegenRequests :
            (regen[p].pc = "findUnique" /\ regen'[p].pc = "upload")
            => ~findUniqueByCode(pages, regen[p].newCode)]_vars
    /\ [][\A p \in RegenRequests :
            (regen[p].pc = "update" /\ regen'[p].status = 200)
            => /\ regen'[p].newCode # regen[p].oldCode
               /\ \E old \in pages :
                     /\ old.id = regen[p].pageId
                     /\ [old EXCEPT !.code = regen'[p].newCode] \in pages'
               /\ ~findUniqueByCode(pages', regen[p].oldCode)]_vars

\* C27: if a single-page regenerate request fails (404 or 500 at any step),
\* the page record still holds its old code and the stored image of the old
\* code still exists: the old image is removed only in runs in which the page
\* record ends up holding the new code.
C27_FailedRegenerateKeepsOldImage ==
    [][\A p \in RegenRequests :
          (/\ regen[p].pc \in {"findUnique", "upload", "update"}
           /\ regen'[p].status \in {404, 500}
           /\ \A q \in RegenRequests \ {p} : regen[q].pc = "idle"
           /\ \A q \in GenRequests : gen[q].pc = "idle")
          => /\ \E pg \in pages' : pg.id = regen[p].pageId /\ pg.code = regen[p].oldCode
             /\ imageFile(regen[p].bookId, regen[p].oldCode) \in bucket']_vars

\* the page a code resolves to in the store, as <<bookId, pageNumber>>
ResolvesTo(store, c) == {<<pg.bookId, pg.pageNumber>> : pg \in {q \in store : Str(q.code) = c}}

\* C28: every successful /api/validate response is internally consistent:
\* prefetch has at most 2 entries with strictly ascending page numbers in
\* (n, n+2] of the same book, next_code is non-null exactly when prefetch
\* contains page n+1 and then equals that entry's code, and every returned
\* code resolves to the stated page, also when regenerate requests run
\* between the store queries of the handler.
C28_ResponseConsistent ==
    [][(lookup.pc = "findMany" /\ lookup'.pc = "done") =>
        LET response == lookup'.response
            n == response.page_number
            prefetch == response.prefetch
            atNext == {k \in 1..Len(prefetch) : prefetch[k].page_number = n + 1}
        IN  /\ Len(prefetch) <= 2
            /\ \A k \in 1..Len(prefetch) :
                  /\ prefetch[k].page_number \in (n + 1)..(n + 2)
                  /\ k > 1 => prefetch[k - 1].page_number < prefetch[k].page_number
                  /\ ResolvesTo(pages', prefetch[k].code)
                        = {<<response.book_id, prefetch[k].page_number>>}
            /\ response.next_code # Null <=> atNext # {}
            /\ \A k \in atNext : response.next_code = prefetch[k].code
            /\ ResolvesTo(pages', Str(toUpperCase(lookup.body.code.s)))
                  = {<<response.book_id, n>>}
            /\ response.next_code # Null =>
                  ResolvesTo(pages', response.next_code) = {<<response.book_id, n + 1>>}
            /\ response.prev_code # Null =>
                  ResolvesTo(pages', response.prev_code) = {<<response.book_id, n - 1>>}]_vars

\* the timestamps the cache holds for an identifier, stale or not
StoredTimestamps(cache, id) ==
    LET found == SelectSeq(cache, LAMBDA item : IsEntryOf(item, id))
    IN  IF found = <<>> THEN <<>> ELSE found[1].value

\* call k of the log is the next call of the identifier of call j
NextCallOf(j, k) ==
    /\ j < k
    /\ rateLog[k].id = rateLog[j].id
    /\ \A m \in (j + 1)..(k - 1) : rateLog[m].id # rateLog[j].id

\* C29: after rateLimit rejects a call of an identifier with reset = r
\* seconds, the next call of that identifier made r seconds or more later is
\* allowed; a rejected call records no timestamp and changes no stored
\* timestamps.
C29_AllowedAfterReset ==
    /\ [](\A j \in 1..Len(rateLog), k \in 1..Len(rateLog) :
            (/\ NextCallOf(j, k)
             /\ ~rateLog[j].ret.success
             /\ rateLog[k].t - rateLog[j].t >= 1000 * rateLog[j].ret.reset)
            => rateLog[k].ret.success)
    /\ [][(/\ Len(rateLog') = Len(rateLog) + 1
           /\ ~rateLog'[Len(rateLog')].ret.success)
          => \A id \in Identifiers :
                StoredTimestamps(rateLimitCache', id) = StoredTimestamps(rateLimitCache, id)]_vars

\* a call is rejected with reset r, a second call of the identifier is
\* rejected before r seconds have passed, and the call made r seconds after
\* the first rejection is allowed
C29_Witness ==
    \E j \in 1..Len(rateLog), k \in 1..Len(rateLog), l \in 1..Len(rateLog) :
        /\ NextCallOf(j, k) /\ NextCallOf(k, l)
        /\ ~rateLog[j].ret.success
        /\ ~rateLog[k].ret.success
        /\ rateLog[j].ret.reset > 0
        /\ rateLog[l].t - rateLog[j].t >= 1000 * rateLog[j].ret.reset
        /\ rateLog[l].ret.success

\* the admin has stopped editing and every preview request has completed
EditorAtRest ==
    /\ editor.open
    /\ ~editor.loading
    /\ ~editor.timer
    /\ editor.pending = {}

\* C30: once the admin stops editing and every outstanding preview request
\* has completed, the previews shown are those rendered for the latest theme
\* (when the request for it was answered ok); a response for an older theme
\* never overwrites the response for a newer one, whatever order the
\* responses arrive in.
C30_PreviewsOfLatestTheme ==
    /\ []((EditorAtRest /\ Len(editor.requests) \in editor.answeredOk)
            => editor.previews.samples = <<editor.theme>>)
    /\ [][editor'.previews.seq < editor.previews.seq
            => editor'.previews.samples = editor.previews.samples]_vars

=============================================================================
